---- MODULE Spec2Model ----
(***************************************************************************)
(* Annapoorneshwari Tyre Works: the OTP challenge manager (otp_utils.py),  *)
(* the booking lifecycle and amount reconciliation (app.py, db.py) and the *)
(* rating eligibility engine (app.py, db.py), as one state machine.        *)
(***************************************************************************)
EXTENDS Integers, Sequences, FiniteSets, TLC

VARIABLES
    now,        \* the wall clock, time.time(), in ticks of 1/TicksPerSecond s
    ticks,      \* how many times the clock has been advanced
    session,    \* the Flask session of the OTP client: a dict from keys to values
    issued,     \* history: per (otp_type, email), the last times check_rate_limit admitted
    stored,     \* history: per otp_type, when store_otp last stored and what (time 0: never)
    response,   \* what the last call returned
    sessions,   \* the Flask session of each web client
    admin_logged_in,  \* session['admin_logged_in'] of the operator's browser
    bookings,   \* prebookings_collection: booking id -> document
    ratings,    \* ratings_collection: the documents, in insertion order
    clock,      \* datetime.now(): a later write reads a later time
    pc,         \* where each request worker is in its handler
    local,      \* the local variables of each request worker
    login_wrong, \* history: per client, the wrong codes sent to /login-otp since /login issued one
    payments    \* payments_collection, in insertion order

otpVars == <<now, ticks, session, issued, stored>>
webVars == <<sessions, admin_logged_in, bookings, ratings, clock>>
procVars == <<pc, local>>
histVars == <<login_wrong>>
payVars == <<payments>>
vars == <<now, ticks, session, issued, stored, response,
          sessions, admin_logged_in, bookings, ratings, clock, pc, local, login_wrong,
          payments>>

None == "None"

\* ------------------------------------------------------------------ bounds
\* how often the clock may be advanced in the challenge specification
MaxTicks == 2
\* how often the clock may be advanced in the issuance specification
MaxRateTicks == 2
\* how many writes to the bookings the model follows
MaxClock == 3
\* how many bookings the model takes
MaxBookings == 1

\* ------------------------------------------------- OTPManager.__init__
max_requests_per_hour == 5
max_attempts_per_session == 3
otp_expiry_seconds == 300
resend_cooldown_seconds == 60
rate_window_seconds == 3600

\* time.time() is a float: the model keeps half seconds
TicksPerSecond == 2

OtpTypes == {"login", "reset"}
Emails == {"a@x.com"}
Codes == {"123456", "654321"}
\* store_otp's user_data in the challenge specification: a dict with the key
\* "user_name" (the issuance specification passes none)
UserData == {"Asha"}
\* how far the clock may jump between two calls, in ticks: 0.5 s, 60 s and 300 s
TickSteps == {1, 120, 600}
\* the issuance specification: one purpose, and jumps of 0.5 s and 3599.5 s
RateTypes == {"login"}
RateTickSteps == {1, 7199}

\* ------------------------------------------------------- the session dict
\* session.get(key, default)
Get(s, k, d) == IF k \in DOMAIN s THEN s[k] ELSE d
\* session[key] = value
Put(s, k, v) == [x \in (DOMAIN s) \cup {k} |-> IF x = k THEN v ELSE s[x]]
\* session.pop(key, None)
Pop(s, k) == [x \in (DOMAIN s) \ {k} |-> s[x]]

\* the keys f"{otp_type}_otp", ..., f"{otp_type}_requests_{email}"
KOtp(t) == <<t, "otp">>
KOtpTime(t) == <<t, "otp_time">>
KEmail(t) == <<t, "email">>
KLastSent(t) == <<t, "last_sent">>
KAttempts(t) == <<t, "attempts">>
KRequests(t, e) == <<t, "requests", e>>

\* hashlib.sha256(otp.encode()).hexdigest(): one digest per code, none shared
hash_otp(otp) == <<"sha256", otp>>

\* a request that sends no email
NoMail == [kind |-> None, bid |-> 0, attachment |-> FALSE, delivered |-> FALSE]

Reply(op, args, ok, msg, val) ==
    [op |-> op, args |-> args, ok |-> ok, msg |-> msg, val |-> val, mail |-> NoMail]

\* int(x) of a non-negative number of ticks: whole seconds, rounded down
IntSeconds(tk) == tk \div TicksPerSecond

\* the last n elements of q
LastN(q, n) == IF Len(q) <= n THEN q ELSE SubSeq(q, Len(q) - n + 1, Len(q))

RECURSIVE SelectRecent(_, _)
\* [req_time for req_time in requests if current_time - req_time < 3600]
SelectRecent(reqs, t) ==
    IF reqs = <<>> THEN <<>>
    ELSE LET rest == SelectRecent(Tail(reqs), t)
         IN IF t - Head(reqs) < rate_window_seconds * TicksPerSecond
            THEN <<Head(reqs)>> \o rest
            ELSE rest

\* ------------------------------------------------------------ OTPManager
clear_otp_session_keeping_code(s, t) ==
    [x \in {k \in DOMAIN s : k[1] # t \/ k = KOtp(t) \/ k = KOtpTime(t)} |-> s[x]]

\* the session after OTPManager.clear_otp(otp_type): the five listed keys and
\* every key that starts with f"{otp_type}_" are popped
clear_otp_session(s, t) == [x \in {k \in DOMAIN s : k[1] # t} |-> s[x]]

\* the session after OTPManager.reset_attempts(otp_type)
reset_attempts(s, t) == Pop(s, KAttempts(t))

increment_attempts_from_stored_only(s, t) ==
    IF KAttempts(t) \in DOMAIN s THEN Put(s, KAttempts(t), s[KAttempts(t)] + 1) ELSE s

\* the session after OTPManager.increment_attempts(otp_type)
increment_attempts(s, t) == Put(s, KAttempts(t), Get(s, KAttempts(t), 0) + 1)

check_attempt_limit_strict(s, t) == ~(Get(s, KAttempts(t), 0) > max_attempts_per_session)

\* OTPManager.check_attempt_limit(otp_type): can another attempt be made?
check_attempt_limit(s, t) == ~(Get(s, KAttempts(t), 0) >= max_attempts_per_session)

\* OTPManager.check_rate_limit(email, otp_type)
check_rate_limit(e, t) ==
    LET recent_requests == SelectRecent(Get(session, KRequests(t, e), <<>>), now)
    IN /\ IF Len(recent_requests) >= max_requests_per_hour
          THEN /\ response' = Reply("check_rate_limit", <<e, t>>, FALSE, "Too many OTP requests", 0)
               /\ UNCHANGED <<session, issued>>
          ELSE /\ session' = Put(session, KRequests(t, e), Append(recent_requests, now))
               /\ issued' = [issued EXCEPT ![<<t, e>>] = LastN(Append(@, now), max_requests_per_hour + 1)]
               /\ response' = Reply("check_rate_limit", <<e, t>>, TRUE, None, 0)
       /\ UNCHANGED <<now, ticks, stored>>

\* OTPManager.can_resend_otp(otp_type)
can_resend_otp(t) ==
    LET last_sent == Get(session, KLastSent(t), 0)
        time_since_last == now - last_sent
    IN /\ IF last_sent = 0
          THEN response' = Reply("can_resend_otp", <<t>>, TRUE, None, 0)
          ELSE IF time_since_last < resend_cooldown_seconds * TicksPerSecond
          THEN response' = Reply("can_resend_otp", <<t>>, FALSE, "Please wait",
                   IntSeconds(resend_cooldown_seconds * TicksPerSecond - time_since_last))
          ELSE response' = Reply("can_resend_otp", <<t>>, TRUE, None, 0)
       /\ UNCHANGED <<otpVars, histVars, payVars>>

store_otp_session_keeping_time(s, otp, t, e, user_data) ==
    LET s1 == Put(s, KOtp(t), hash_otp(otp))
        s2 == Put(s1, KOtpTime(t), Get(s, KOtpTime(t), now))
        s3 == Put(s2, KEmail(t), e)
        s4 == Put(s3, KLastSent(t), now)
        s5 == IF user_data # None THEN Put(s4, <<t, "user_name">>, user_data) ELSE s4
    IN reset_attempts(s5, t)

\* the session after OTPManager.store_otp(otp, otp_type, email, user_data)
store_otp_session(s, otp, t, e, user_data) ==
    LET s1 == Put(s, KOtp(t), hash_otp(otp))
        s2 == Put(s1, KOtpTime(t), now)
        s3 == Put(s2, KEmail(t), e)
        s4 == Put(s3, KLastSent(t), now)
        s5 == IF user_data # None THEN Put(s4, <<t, "user_name">>, user_data) ELSE s4
    IN reset_attempts(s5, t)

\* OTPManager.store_otp with a code from OTPManager.generate_otp
store_otp(otp, t, e, user_data) ==
    /\ session' = store_otp_session(session, otp, t, e, user_data)
    /\ stored' = [stored EXCEPT ![t] = [time |-> now, hash |-> hash_otp(otp)]]
    /\ response' = Reply("store_otp", <<otp, t, e>>, TRUE, None, 0)
    /\ UNCHANGED <<now, ticks, issued>>

otp_expired_by_absence_only(otp_time, current_time) ==
    otp_time = 0

\* OTPManager.verify_otp, the expiry test on the stored issue time
otp_expired(otp_time, current_time) ==
    otp_time = 0 \/ current_time - otp_time > otp_expiry_seconds * TicksPerSecond

\* OTPManager.verify_otp(entered_otp, otp_type)
verify_otp(entered_otp, t) ==
    LET otp_time == Get(session, KOtpTime(t), 0)
    IN /\ IF KOtp(t) \notin DOMAIN session
          THEN /\ response' = Reply("verify_otp", <<entered_otp, t>>, FALSE, "No OTP found", 0)
               /\ UNCHANGED session
          ELSE IF otp_expired(otp_time, now)
          THEN /\ session' = clear_otp_session(session, t)
               /\ response' = Reply("verify_otp", <<entered_otp, t>>, FALSE, "OTP has expired", 0)
          ELSE IF ~check_attempt_limit(session, t)
          THEN /\ response' = Reply("verify_otp", <<entered_otp, t>>, FALSE, "Too many failed attempts", 0)
               /\ UNCHANGED session
          ELSE IF hash_otp(entered_otp) = session[KOtp(t)]
          THEN /\ session' = reset_attempts(clear_otp_session(session, t), t)
               /\ response' = Reply("verify_otp", <<entered_otp, t>>, TRUE, None, 0)
          ELSE /\ session' = increment_attempts(session, t)
               /\ response' = Reply("verify_otp", <<entered_otp, t>>, FALSE, "Invalid OTP",
                       max_attempts_per_session - Get(session', KAttempts(t), 0))
       /\ UNCHANGED <<now, ticks, issued, stored>>

\* max(0, x)
Max0(x) == IF x < 0 THEN 0 ELSE x

get_otp_status_without_attempts(s, t) ==
    [has_otp |-> KOtp(t) \in DOMAIN s, attempts_used |-> 0,
     max_attempts |-> max_attempts_per_session]

\* OTPManager.get_otp_status(otp_type): what it reports of the challenge and
\* of the attempts
get_otp_status(s, t) ==
    [has_otp |-> KOtp(t) \in DOMAIN s, attempts_used |-> Get(s, KAttempts(t), 0),
     max_attempts |-> max_attempts_per_session]

\* OTPManager.get_otp_status(otp_type): what it reports of the times, when an
\* issue time is stored
get_otp_status_times(s, t, current_time) ==
    LET time_elapsed == current_time - Get(s, KOtpTime(t), 0)
        time_since_sent == current_time - Get(s, KLastSent(t), 0)
    IN [time_elapsed |-> IntSeconds(time_elapsed),
        time_remaining |-> Max0((otp_expiry_seconds * TicksPerSecond - time_elapsed)
                                   \div TicksPerSecond),
        is_expired |-> time_elapsed > otp_expiry_seconds * TicksPerSecond,
        can_resend |-> /\ KLastSent(t) \in DOMAIN s
                       /\ ~(time_since_sent < resend_cooldown_seconds * TicksPerSecond)]

\* OTPManager.clear_otp(otp_type)
clear_otp(t) ==
    /\ session' = clear_otp_session(session, t)
    /\ response' = Reply("clear_otp", <<t>>, TRUE, None, 0)
    /\ UNCHANGED <<now, ticks, issued, stored>>

\* the purposes cleanup_expired_otps looks at
CleanupTypes == {"login", "reset", "prebook"}

\* cleanup_expired_otps: is the challenge of the purpose stored for more than
\* 300 seconds?
cleanup_due(s, t, current_time) ==
    /\ Get(s, KOtpTime(t), 0) # 0
    /\ current_time - Get(s, KOtpTime(t), 0) > 300 * TicksPerSecond

\* cleanup_expired_otps(): clear_otp for every purpose whose challenge is due
cleanup_expired_otps ==
    /\ session' = [x \in {k \in DOMAIN session :
                              ~(k[1] \in CleanupTypes /\ cleanup_due(session, k[1], now))}
                       |-> session[x]]
    /\ response' = Reply("cleanup_expired_otps", <<>>, TRUE, None, 0)
    /\ UNCHANGED <<now, ticks, issued, stored>>

\* time passes between two calls
Advance(d, max) ==
    /\ ticks < max
    /\ now' = now + d
    /\ ticks' = ticks + 1
    /\ UNCHANGED <<session, issued, stored, response>>

Tick(d) == Advance(d, MaxTicks)

RateTick(d) == Advance(d, MaxRateTicks)

OtpInit ==
    /\ now = 1
    /\ ticks = 0
    /\ session = <<>>
    /\ issued = [k \in OtpTypes \X Emails |-> <<>>]
    /\ stored = [t \in OtpTypes |-> [time |-> 0, hash |-> None]]
    /\ response = Reply("init", <<>>, TRUE, None, 0)

\* ================================================================== web
\* db.users: two approved customers
\* the accounts: the email is unique, the name is not (u3 is a namesake of u1)
Users == {"u1", "u2", "u3"}
UserEmail(u) == CASE u = "u1" -> "a@x.com" [] u = "u2" -> "b@x.com" [] OTHER -> "c@x.com"
UserName(u) == IF u = "u2" THEN "Ravi" ELSE "Asha"
\* one browser per customer
Clients == {"u1", "u2"}
\* the request workers
Procs == {"w1", "w2"}

\* services_collection, as initialize_services seeds it
ServiceCatalog == {"Greasing", "Puncturing", "Tyre Issues", "Painting"}

\* str.lower()
Lower(n) ==
    CASE n \in {"Puncturing", "puncturing"} -> "puncturing"
      [] n \in {"Waxing", "waxing"} -> "waxing"
      [] n = "Greasing" -> "greasing"
      [] n = "Tyre Issues" -> "tyre issues"
      [] n = "Painting" -> "painting"
      [] n \in {"Asha", "asha"} -> "asha"
      [] n = "Ravi" -> "ravi"
      [] n = "O" -> "o"
      [] OTHER -> n

\* str.capitalize()
Capitalize(n) ==
    CASE Lower(n) = "puncturing" -> "Puncturing"
      [] Lower(n) = "waxing" -> "Waxing"
      [] Lower(n) = "tyre issues" -> "Tyre issues"
      [] n = "i" -> "I"
      [] n = "l" -> "L"
      [] OTHER -> n

\* {"$regex": f"^{pattern}$", "$options": "i"} against the string s
RegexIMatch(pattern, s) == Lower(pattern) = Lower(s)

\* the characters of a string, as iterating over it yields them
Chars(text) ==
    CASE text = "Oil" -> <<"O", "i", "l">>
      [] text = "a@x.com" -> <<"a", "@", "x", ".", "c", "o", "m">>
      [] text = "b@x.com" -> <<"b", "@", "x", ".", "c", "o", "m">>
      [] text = "c@x.com" -> <<"c", "@", "x", ".", "c", "o", "m">>
      [] text = "nobody" -> <<"n", "o", "b", "o", "d", "y">>
      [] text = "a@x" -> <<"a", "@", "x">>
      [] text = "a@@x.com" -> <<"a", "@", "@", "x", ".", "c", "o", "m">>
      [] text = "@x.com" -> <<"@", "x", ".", "c", "o", "m">>
      [] text = "a@.com" -> <<"a", "@", ".", "c", "o", "m">>
      [] text = "a@x." -> <<"a", "@", "x", ".">>
      [] text = "9876543210" -> <<"9", "8", "7", "6", "5", "4", "3", "2", "1", "0">>
      [] text = "987654321" -> <<"9", "8", "7", "6", "5", "4", "3", "2", "1">>
      [] text = "987654321012345" ->
            <<"9", "8", "7", "6", "5", "4", "3", "2", "1", "0", "1", "2", "3", "4", "5">>
      [] text = "9876543210123456" ->
            <<"9", "8", "7", "6", "5", "4", "3", "2", "1", "0", "1", "2", "3", "4", "5", "6">>
      [] text = "98765x3210" -> <<"9", "8", "7", "6", "5", "x", "3", "2", "1", "0">>
      [] text = "4.5" -> <<"4", ".", "5">>
      [] text = "-1" -> <<"-", "1">>
      [] text = "10" -> <<"1", "0">>
      [] text = "" -> <<>>
      [] OTHER -> <<text>>

\* one element of a services list: a bare name (kind "str") or a
\* {name, amount} record (kind "dict")
Entry(kind, name, amount) == [kind |-> kind, name |-> name, amount |-> amount]
\* the services value of a request: one string, or a list
ServicesString(text) == [kind |-> "string", text |-> text, items |-> <<>>]
ServicesList(items) == [kind |-> "list", text |-> "", items |-> items]

\* db.get_service_by_name: the catalog name, whatever the case of service_name
get_service_by_name(service_name) ==
    IF \E c \in ServiceCatalog : RegexIMatch(service_name, c)
    THEN CHOOSE c \in ServiceCatalog : RegexIMatch(service_name, c)
    ELSE None

RECURSIVE SumAmounts(_)
\* sum(service.get('amount', 0) for service in services_data)
SumAmounts(services) ==
    IF services = <<>> THEN 0
    ELSE (IF Head(services).kind = "dict" THEN Head(services).amount ELSE 0)
         + SumAmounts(Tail(services))

\* ---------------------------------------------------------- sessions
NoSession == [user_id |-> None, user_email |-> None, user_name |-> None,
              otp |-> None, otp_time |-> 0, otp_verified |-> None,
              login_otp |-> None, login_otp_time |-> 0, login_user_id |-> None,
              login_user_email |-> None, login_user_name |-> None]

\* app.ensure_user_session: whether the session is usable, and the session after
ensure_user_session(s) ==
    IF s.user_id = None THEN [ok |-> FALSE, session |-> s]
    ELSE IF s.user_email # None /\ s.user_name # None THEN [ok |-> TRUE, session |-> s]
    ELSE [ok |-> TRUE,
          session |-> [s EXCEPT !.user_email = UserEmail(s.user_id),
                                !.user_name = UserName(s.user_id)]]

\* /login followed by /login-otp with the code sent: the session is bound to
\* the account
login_as(c) ==
    /\ sessions[c].user_id = None
    /\ sessions' = [sessions EXCEPT ![c] =
           [sessions[c] EXCEPT !.user_id = c, !.user_email = UserEmail(c),
                               !.user_name = UserName(c)]]
    /\ response' = Reply("login_as", <<c>>, TRUE, None, 0)
    /\ UNCHANGED <<admin_logged_in, bookings, ratings, clock>>

\* /logout
logout(c) ==
    /\ sessions[c].user_id # None
    /\ sessions' = [sessions EXCEPT ![c] = NoSession]
    /\ response' = Reply("logout", <<c>>, TRUE, None, 0)
    /\ UNCHANGED <<admin_logged_in, bookings, ratings, clock>>

\* /send-otp: a fresh code is put in the session and mailed to the address
\* of the request; delivered tells whether the mail went out
send_otp(c, email, otp, delivered) ==
    /\ IF email = ""
       THEN /\ response' = Reply("send_otp", <<c>>, FALSE, "Email is required", 400)
            /\ UNCHANGED sessions
       ELSE /\ sessions' = [sessions EXCEPT ![c] =
                   [sessions[c] EXCEPT !.otp = otp, !.otp_time = now, !.otp_verified = FALSE]]
            /\ response' = IF delivered
                           THEN Reply("send_otp", <<c>>, TRUE, None, 0)
                           ELSE Reply("send_otp", <<c>>, FALSE, "Failed to send OTP email", 500)
    /\ UNCHANGED <<admin_logged_in, bookings, ratings, clock>>

\* /verify-otp
verify_otp_route(c, email, otp_entered) ==
    /\ IF sessions[c].otp = None
       THEN /\ response' = Reply("verify_otp_route", <<c>>, FALSE, "OTP not sent", 0)
            /\ UNCHANGED sessions
       ELSE IF now - sessions[c].otp_time > 300 * TicksPerSecond
       THEN /\ response' = Reply("verify_otp_route", <<c>>, FALSE, "Expired OTP", 0)
            /\ UNCHANGED sessions
       ELSE IF otp_entered = sessions[c].otp
       THEN /\ sessions' = [sessions EXCEPT ![c] =
                   [sessions[c] EXCEPT !.otp_verified = TRUE, !.user_email = email]]
            /\ response' = Reply("verify_otp_route", <<c>>, TRUE, None, 0)
       ELSE /\ response' = Reply("verify_otp_route", <<c>>, FALSE, "Invalid OTP", 0)
            /\ UNCHANGED sessions
    /\ UNCHANGED <<admin_logged_in, bookings, ratings, clock>>

\* /admin with the operator's credentials
admin ==
    /\ ~admin_logged_in
    /\ admin_logged_in' = TRUE
    /\ response' = Reply("admin", <<>>, TRUE, None, 0)
    /\ UNCHANGED <<sessions, bookings, ratings, clock>>

\* /admin/logout
admin_logout ==
    /\ admin_logged_in
    /\ admin_logged_in' = FALSE
    /\ response' = Reply("admin_logout", <<>>, TRUE, None, 0)
    /\ UNCHANGED <<sessions, bookings, ratings, clock>>

\* ---------------------------------------------------------- bookings
\* the services insert_prebooking stores for the services of the request
insert_prebooking_services(services) ==
    IF services.kind = "string"
    THEN [i \in 1..Len(Chars(services.text)) |-> Entry("dict", Chars(services.text)[i], 0)]
    ELSE IF services.items # <<>> /\ services.items[1].kind = "str"
    THEN [i \in 1..Len(services.items) |-> Entry("dict", services.items[i].name, 0)]
    ELSE services.items

\* the document db.insert_prebooking stores for the data prebook hands it
insert_prebooking(id, u, req) ==
    [booking_id |-> id, user_id |-> u, email |-> UserEmail(u), name |-> UserName(u),
     preferred_date |-> req.preferred_date, time |-> req.time,
     services |-> insert_prebooking_services(req.services),
     status |-> "pending", total_service_amount |-> 0, total_amount |-> 0,
     service_amount |-> -1, created_at |-> id, updated_at |-> 0,
     completed_at |-> 0, amount_updated_at |-> 0, payment_status |-> None]

\* re.match(r'^[^@]+@[^@]+\.[^@]+$', email): a run without "@", an "@", a run
\* without "@", a ".", a run without "@"
EmailOk(e) ==
    LET cs == Chars(e)
        NoAt(a, b) == a <= b /\ \A k \in a..b : cs[k] # "@"
    IN \E i, j \in 1..Len(cs) :
          /\ NoAt(1, i - 1)
          /\ cs[i] = "@"
          /\ NoAt(i + 1, j - 1)
          /\ cs[j] = "."
          /\ NoAt(j + 1, Len(cs))

ContactOk_any_length(c) ==
    \A k \in 1..Len(Chars(c)) : Chars(c)[k] \in {"0", "1", "2", "3", "4", "5", "6", "7", "8", "9"}

\* contact.isdigit() and 10 <= len(contact) <= 15
ContactOk(c) ==
    /\ Chars(c) # <<>>
    /\ \A k \in 1..Len(Chars(c)) : Chars(c)[k] \in {"0", "1", "2", "3", "4", "5", "6", "7", "8", "9"}
    /\ 10 <= Len(Chars(c)) /\ Len(Chars(c)) <= 15
DateInPast(d) == d = "yesterday"
DateOk(d) == d \in {"yesterday", "today", "tomorrow"}
ServicesEmpty(sv) == IF sv.kind = "string" THEN sv.text = "" ELSE sv.items = <<>>

\* why prebook refuses the request, or None
prebook_error(s, req) ==
    IF s.user_id = None THEN "Please login to make a booking"
    ELSE IF \/ req.name = "" \/ req.contact = "" \/ req.email = "" \/ req.area = ""
            \/ req.district = "" \/ req.taluk = ""
            \/ req.preferred_date = "" \/ req.time = "" \/ ServicesEmpty(req.services)
    THEN "Missing"
    ELSE IF ~EmailOk(req.email) THEN "Invalid email"
    ELSE IF ~ContactOk(req.contact) THEN "Invalid contact"
    ELSE IF ~DateOk(req.preferred_date) THEN "Invalid date"
    ELSE IF DateInPast(req.preferred_date) THEN "Date cannot be in past"
    ELSE None

\* the email a handler sends out while it serves the request: the receipt
\* attached or not, the transport's answer
Mail(kind, bid, attachment, delivered) ==
    [kind |-> kind, bid |-> bid, attachment |-> attachment, delivered |-> delivered]

\* the receipt mail of prebook and complete_booking: generate_receipt_pdf and
\* send_email share one try block, so nothing is sent without the receipt
ReceiptMail(kind, bid, rendered, delivered) ==
    Mail(kind, bid, rendered, rendered /\ delivered)

notification_failure_propagates(rendered, delivered) == rendered /\ delivered

\* "except Exception as e: print(...)" around the rendering and the sending,
\* and send_email's own except: the handler goes on to its answer whatever
\* happened to the email
notification_failure_swallowed(rendered, delivered) == TRUE

\* the answer of a handler after its notification
AfterNotification(reply, mail, rendered, delivered) ==
    IF notification_failure_swallowed(rendered, delivered)
    THEN [reply EXCEPT !.mail = mail]
    ELSE [Reply(reply.op, reply.args, FALSE, "Server error", 500) EXCEPT !.mail = mail]

\* POST /prebook, with the outcome of the receipt rendering and of the email
\* transport
prebook_notified(c, req, rendered, delivered) ==
    LET s == sessions[c]
        err == prebook_error(s, req)
    IN IF err # None
       THEN /\ response' = Reply("prebook", <<c>>, FALSE, err, 0)
            /\ UNCHANGED webVars
       ELSE /\ clock < MaxClock
            /\ clock' = clock + 1
            /\ sessions' = [sessions EXCEPT ![c] =
                   [s EXCEPT !.user_name = UserName(s.user_id), !.user_email = req.email]]
            /\ bookings' = Put(bookings, clock', insert_prebooking(clock', s.user_id, req))
            /\ response' = AfterNotification(Reply("prebook", <<c>>, TRUE, None, clock'),
                               ReceiptMail("Booking Confirmation", clock', rendered, delivered),
                               rendered, delivered)
            /\ UNCHANGED <<admin_logged_in, ratings>>

\* POST /prebook with the receipt rendered and the email delivered
prebook(c, req) == prebook_notified(c, req, TRUE, TRUE)

\* db.update_booking_service_amounts: the document after the update
update_booking_service_amounts(b, services_data, at) ==
    LET total_service_amount == SumAmounts(services_data)
        total_amount == total_service_amount
    IN [b EXCEPT !.services = services_data,
                 !.total_service_amount = total_service_amount,
                 !.total_amount = total_amount,
                 !.amount_updated_at = at]

\* POST /admin/update-individual-service-amounts/<booking_id>
update_individual_service_amounts(bid, services_data) ==
    IF ~admin_logged_in
    THEN /\ response' = Reply("update_individual_service_amounts", <<bid>>, FALSE, "Admin access required", 403)
         /\ UNCHANGED webVars
    ELSE IF services_data = <<>>
    THEN /\ response' = Reply("update_individual_service_amounts", <<bid>>, FALSE, "services_data is required", 400)
         /\ UNCHANGED webVars
    ELSE IF \E i \in 1..Len(services_data) : services_data[i].kind # "dict"
    THEN /\ response' = Reply("update_individual_service_amounts", <<bid>>, FALSE, "Each service must have name and amount", 400)
         /\ UNCHANGED webVars
    ELSE IF bid \notin DOMAIN bookings
    THEN /\ response' = Reply("update_individual_service_amounts", <<bid>>, FALSE, "Update failed", 500)
         /\ UNCHANGED webVars
    ELSE /\ clock < MaxClock
         /\ clock' = clock + 1
         /\ bookings' = [bookings EXCEPT ![bid] =
                update_booking_service_amounts(@, services_data, clock')]
         /\ response' = Reply("update_individual_service_amounts", <<bid>>, TRUE, None,
                bookings'[bid].total_amount)
         /\ UNCHANGED <<sessions, admin_logged_in, ratings>>

\* db.update_booking_service_amount: the document after the update
update_booking_service_amount(b, service_amount, at) ==
    LET total_amount == service_amount + 20
    IN [b EXCEPT !.service_amount = service_amount,
                 !.total_amount = total_amount,
                 !.amount_updated_at = at]

\* POST /admin/update-service-amount/<booking_id>
update_service_amount(bid, service_amount) ==
    IF ~admin_logged_in
    THEN /\ response' = Reply("update_service_amount", <<bid>>, FALSE, "Admin access required", 403)
         /\ UNCHANGED webVars
    ELSE IF service_amount < 0
    THEN /\ response' = Reply("update_service_amount", <<bid>>, FALSE, "Amount cannot be negative", 400)
         /\ UNCHANGED webVars
    ELSE IF bid \notin DOMAIN bookings
    THEN /\ response' = Reply("update_service_amount", <<bid>>, FALSE, "Update failed", 500)
         /\ UNCHANGED webVars
    ELSE /\ clock < MaxClock
         /\ clock' = clock + 1
         /\ bookings' = [bookings EXCEPT ![bid] =
                update_booking_service_amount(@, service_amount, clock')]
         /\ response' = Reply("update_service_amount", <<bid>>, TRUE, None, service_amount)
         /\ UNCHANGED <<sessions, admin_logged_in, ratings>>

\* ------------------------------------------------- request workers
NoLocal == [op |-> None, client |-> None, user_id |-> None, bid |-> 0,
            service_name |-> None, user_name |-> None, user_email |-> None,
            rating |-> 0, preferred_date |-> None, time |-> None, total |-> 0,
            status |-> None, session |-> <<>>, email |-> None, otp_type |-> None,
            otp |-> None]

\* the worker returns to idle with nothing in hand
Idle(p) ==
    /\ pc' = [pc EXCEPT ![p] = "idle"]
    /\ local' = [local EXCEPT ![p] = NoLocal]

\* the worker goes on to its next step
Goto(p, label, l) ==
    /\ pc' = [pc EXCEPT ![p] = label]
    /\ local' = [local EXCEPT ![p] = l]

\* prebookings_collection.update_one({...}, {"$set": {"status": status,
\* "updated_at": datetime.now()}}): the document after it
update_prebooking_status(b, status, at) ==
    [b EXCEPT !.status = status, !.updated_at = at]

\* the $set of complete_booking: the document after it
complete_booking_set(b, at) ==
    [b EXCEPT !.status = "completed", !.completed_at = at, !.updated_at = at]

\* complete_booking, up to and including find_one
complete_booking_find(p, bid) ==
    /\ pc[p] = "idle"
    /\ IF ~admin_logged_in
       THEN /\ response' = Reply("complete_booking", <<bid>>, FALSE, "Admin access required", 403)
            /\ UNCHANGED procVars
       ELSE IF bid \notin DOMAIN bookings
       THEN /\ response' = Reply("complete_booking", <<bid>>, FALSE, "Booking not found", 404)
            /\ UNCHANGED procVars
       ELSE /\ clock < MaxClock
            /\ Goto(p, "complete_booking_update",
                   [NoLocal EXCEPT !.op = "complete_booking", !.bid = bid,
                                   !.total = bookings[bid].total_amount,
                                   !.status = bookings[bid].status])
            /\ UNCHANGED response
    /\ UNCHANGED webVars

\* complete_booking, from update_one on, with the outcome of the receipt
\* rendering and of the email transport
complete_booking_update_notified(p, rendered, delivered) ==
    /\ pc[p] = "complete_booking_update"
    /\ LET bid == local[p].bid
       IN IF bid \notin DOMAIN bookings
          THEN /\ response' = Reply("complete_booking", <<bid>>, FALSE, "Booking not found", 404)
               /\ UNCHANGED webVars
          ELSE /\ clock < MaxClock
               /\ clock' = clock + 1
               /\ bookings' = [bookings EXCEPT ![bid] = complete_booking_set(@, clock')]
               /\ response' = AfterNotification(
                      Reply("complete_booking", <<bid>>, TRUE, "Completed", local[p].total),
                      ReceiptMail("Service Complete", bid, rendered, delivered),
                      rendered, delivered)
               /\ UNCHANGED <<sessions, admin_logged_in, ratings>>
    /\ Idle(p)

\* complete_booking, from update_one on, with the receipt rendered and the
\* email delivered
complete_booking_update(p) == complete_booking_update_notified(p, TRUE, TRUE)

\* reject_booking, up to and including get_prebooking_by_id
reject_booking_find(p, bid) ==
    /\ pc[p] = "idle"
    /\ IF ~admin_logged_in
       THEN /\ response' = Reply("reject_booking", <<bid>>, FALSE, "Unauthorized", 401)
            /\ UNCHANGED procVars
       ELSE IF bid \notin DOMAIN bookings
       THEN /\ response' = Reply("reject_booking", <<bid>>, FALSE, "Booking not found", 404)
            /\ UNCHANGED procVars
       ELSE /\ clock < MaxClock
            /\ Goto(p, "reject_booking_update",
                   [NoLocal EXCEPT !.op = "reject_booking", !.bid = bid,
                                   !.status = bookings[bid].status])
            /\ UNCHANGED response
    /\ UNCHANGED webVars

\* reject_booking, from update_prebooking_status on, with the outcome of the
\* notice rendering and of the email transport; when the rendering or the
\* first sending raises, the email is sent again without the notice
reject_booking_update_notified(p, rendered, delivered) ==
    /\ pc[p] = "reject_booking_update"
    /\ LET bid == local[p].bid
       IN IF bid \notin DOMAIN bookings
          THEN /\ response' = Reply("reject_booking", <<bid>>, FALSE, "Failed to update booking status", 500)
               /\ UNCHANGED webVars
          ELSE /\ clock < MaxClock
               /\ clock' = clock + 1
               /\ bookings' = [bookings EXCEPT ![bid] = update_prebooking_status(@, "rejected", clock')]
               /\ response' = AfterNotification(
                      Reply("reject_booking", <<bid>>, TRUE, None, 0),
                      Mail("Booking Rejected", bid, rendered, delivered),
                      rendered, delivered)
               /\ UNCHANGED <<sessions, admin_logged_in, ratings>>
    /\ Idle(p)

\* reject_booking, from update_prebooking_status on, with the notice rendered
\* and the email delivered
reject_booking_update(p) == reject_booking_update_notified(p, TRUE, TRUE)

\* the find_one of cancel_booking and reschedule_booking: the booking with
\* this id that carries the session's email and name
owned_booking(bid, user_email, user_name) ==
    /\ bid \in DOMAIN bookings
    /\ bookings[bid].email = user_email
    /\ RegexIMatch(user_name, bookings[bid].name)

\* cancel_booking, up to and including find_one and the status check
cancel_booking_find(p, c, bid) ==
    /\ pc[p] = "idle"
    /\ LET e == ensure_user_session(sessions[c])
       IN IF ~e.ok
          THEN /\ response' = Reply("cancel_booking", <<c, bid>>, FALSE, "Please login first", 0)
               /\ UNCHANGED <<procVars, sessions>>
          ELSE /\ sessions' = [sessions EXCEPT ![c] = e.session]
               /\ IF ~owned_booking(bid, e.session.user_email, e.session.user_name)
                  THEN /\ response' = Reply("cancel_booking", <<c, bid>>, FALSE, "Booking not found", 0)
                       /\ UNCHANGED procVars
                  ELSE IF bookings[bid].status # "pending"
                  THEN /\ response' = Reply("cancel_booking", <<c, bid>>, FALSE,
                              "Only pending bookings can be cancelled", 0)
                       /\ UNCHANGED procVars
                  ELSE /\ clock < MaxClock
                       /\ Goto(p, "cancel_booking_update",
                              [NoLocal EXCEPT !.op = "cancel_booking", !.client = c, !.bid = bid,
                                              !.user_id = e.session.user_id,
                                              !.status = bookings[bid].status])
                       /\ UNCHANGED response
    /\ UNCHANGED <<admin_logged_in, bookings, ratings, clock>>

\* cancel_booking, from update_one on
cancel_booking_update(p) ==
    /\ pc[p] = "cancel_booking_update"
    /\ LET bid == local[p].bid
       IN /\ IF bid \notin DOMAIN bookings
             THEN UNCHANGED webVars
             ELSE /\ clock < MaxClock
                  /\ clock' = clock + 1
                  /\ bookings' = [bookings EXCEPT ![bid] = update_prebooking_status(@, "cancelled", clock')]
                  /\ UNCHANGED <<sessions, admin_logged_in, ratings>>
          /\ response' = Reply("cancel_booking", <<local[p].client, bid>>, TRUE,
                 "Booking cancelled successfully", 0)
    /\ Idle(p)

\* reschedule_booking (POST), up to the update
reschedule_booking_find(p, c, bid, new_date, new_time) ==
    /\ pc[p] = "idle"
    /\ LET e == ensure_user_session(sessions[c])
       IN IF ~e.ok
          THEN /\ response' = Reply("reschedule_booking", <<c, bid>>, FALSE, "Please login first", 0)
               /\ UNCHANGED <<procVars, sessions>>
          ELSE /\ sessions' = [sessions EXCEPT ![c] = e.session]
               /\ IF ~owned_booking(bid, e.session.user_email, e.session.user_name)
                  THEN /\ response' = Reply("reschedule_booking", <<c, bid>>, FALSE, "Booking not found", 0)
                       /\ UNCHANGED procVars
                  ELSE IF bookings[bid].status # "pending"
                  THEN /\ response' = Reply("reschedule_booking", <<c, bid>>, FALSE,
                              "Only pending bookings can be rescheduled", 0)
                       /\ UNCHANGED procVars
                  ELSE IF new_date = "" \/ new_time = ""
                  THEN /\ response' = Reply("reschedule_booking", <<c, bid>>, FALSE,
                              "Please provide both date and time", 0)
                       /\ UNCHANGED procVars
                  ELSE IF ~DateOk(new_date)
                  THEN /\ response' = Reply("reschedule_booking", <<c, bid>>, FALSE, "Invalid date format", 0)
                       /\ UNCHANGED procVars
                  ELSE IF DateInPast(new_date)
                  THEN /\ response' = Reply("reschedule_booking", <<c, bid>>, FALSE, "Date cannot be in the past", 0)
                       /\ UNCHANGED procVars
                  ELSE /\ clock < MaxClock
                       /\ Goto(p, "reschedule_booking_update",
                              [NoLocal EXCEPT !.op = "reschedule_booking", !.client = c, !.bid = bid,
                                              !.user_id = e.session.user_id,
                                              !.preferred_date = new_date, !.time = new_time])
                       /\ UNCHANGED response
    /\ UNCHANGED <<admin_logged_in, bookings, ratings, clock>>

\* reschedule_booking, from update_one on
reschedule_booking_update(p) ==
    /\ pc[p] = "reschedule_booking_update"
    /\ LET bid == local[p].bid
       IN /\ IF bid \notin DOMAIN bookings
             THEN UNCHANGED webVars
             ELSE /\ clock < MaxClock
                  /\ clock' = clock + 1
                  /\ bookings' = [bookings EXCEPT ![bid] =
                         [@ EXCEPT !.preferred_date = local[p].preferred_date,
                                   !.time = local[p].time, !.updated_at = clock']]
                  /\ UNCHANGED <<sessions, admin_logged_in, ratings>>
          /\ response' = Reply("reschedule_booking", <<local[p].client, bid>>, TRUE,
                 "Booking rescheduled successfully", 0)
    /\ Idle(p)

\* ------------------------------------------------------------ ratings
Digits == {"0", "1", "2", "3", "4", "5", "6", "7", "8", "9"}
DigitValue(ch) ==
    CASE ch = "0" -> 0 [] ch = "1" -> 1 [] ch = "2" -> 2 [] ch = "3" -> 3 [] ch = "4" -> 4
      [] ch = "5" -> 5 [] ch = "6" -> 6 [] ch = "7" -> 7 [] ch = "8" -> 8 [] OTHER -> 9

\* the digits of an integer literal after its sign
Unsigned(cs) == IF cs # <<>> /\ cs[1] \in {"-", "+"} THEN Tail(cs) ELSE cs

\* does int(text) accept the text: an optional sign and digits
IsIntText(text) ==
    /\ Unsigned(Chars(text)) # <<>>
    /\ \A k \in 1..Len(Unsigned(Chars(text))) : Unsigned(Chars(text))[k] \in Digits

RECURSIVE DigitsValue(_)
DigitsValue(cs) ==
    IF cs = <<>> THEN 0
    ELSE 10 * DigitsValue(SubSeq(cs, 1, Len(cs) - 1)) + DigitValue(cs[Len(cs)])

\* int(rating) of the form field (the value is read only when IsIntText holds)
ParseInt(text) ==
    IF ~IsIntText(text) THEN -1
    ELSE IF Chars(text)[1] = "-" THEN 0 - DigitsValue(Unsigned(Chars(text)))
    ELSE DigitsValue(Unsigned(Chars(text)))

rating_in_range_from_zero(rating) == 0 <= rating /\ rating <= 5

\* 1 <= rating <= 5
rating_in_range(rating) == 1 <= rating /\ rating <= 5

\* the completed booking with this id that carries the session's email
\* (rate_service_with_images, find_one)
completed_booking_of(bid, session_email) ==
    /\ bid \in DOMAIN bookings
    /\ bookings[bid].email = session_email
    /\ bookings[bid].status = "completed"

\* rate_service_with_images: is service_name one of the booking's services?
service_found(b, service_name) ==
    \E i \in 1..Len(b.services) : b.services[i].name = service_name

\* db.check_user_rating_exists_for_booking
check_user_rating_exists_for_booking(bid, service_name) ==
    \E i \in 1..Len(ratings) :
        /\ ratings[i].booking_id = bid
        /\ RegexIMatch(service_name, ratings[i].service_name)

\* the unique index booking_service_unique on (booking_id, service_name):
\* does inserting this document violate it?
booking_service_unique_violated(doc) ==
    \E i \in 1..Len(ratings) :
        /\ ratings[i].booking_id = doc.booking_id
        /\ ratings[i].service_name = doc.service_name

\* the name insert_rating stores for the submitted service name
normalized_service_name(service_name) ==
    IF get_service_by_name(service_name) # None
    THEN get_service_by_name(service_name)
    ELSE service_name

\* why rate_service_with_images refuses the request before it looks at the
\* ratings, or None
rate_error(s, form) ==
    IF s.user_email = None \/ s.user_name = None THEN "Please log in first"
    ELSE IF form.user_name = "" \/ form.service_name = "" \/ form.booking_id = 0 \/ form.rating = ""
    THEN "All required fields must be filled"
    ELSE IF ~IsIntText(form.rating) THEN "Invalid rating value"
    ELSE IF ~rating_in_range(ParseInt(form.rating))
    THEN "Rating must be between 1 and 5"
    ELSE IF Lower(form.user_name) # Lower(s.user_name) THEN "User session mismatch"
    ELSE IF ~completed_booking_of(form.booking_id, s.user_email)
    THEN "No completed booking found with this ID"
    ELSE IF ~service_found(bookings[form.booking_id], form.service_name)
    THEN "Service was not part of booking"
    ELSE None

\* rate_service_with_images, up to the verification of the booking
rate_service_with_images(p, c, form) ==
    /\ pc[p] = "idle"
    /\ LET e == ensure_user_session(sessions[c])
       IN IF ~e.ok
          THEN /\ response' = Reply("rate_service_with_images", <<c>>, FALSE, "Please log in first", 401)
               /\ UNCHANGED <<procVars, sessions>>
          ELSE /\ sessions' = [sessions EXCEPT ![c] = e.session]
               /\ IF rate_error(e.session, form) # None
                  THEN /\ response' = Reply("rate_service_with_images", <<c>>, FALSE,
                              rate_error(e.session, form), 403)
                       /\ UNCHANGED procVars
                  ELSE /\ Goto(p, "rate_check_existing",
                              [NoLocal EXCEPT !.op = "rate_service_with_images", !.client = c,
                                  !.user_id = e.session.user_id, !.bid = form.booking_id,
                                  !.service_name = form.service_name,
                                  !.user_name = form.user_name,
                                  !.user_email = e.session.user_email,
                                  !.rating = ParseInt(form.rating)])
                       /\ UNCHANGED response
    /\ UNCHANGED <<admin_logged_in, bookings, ratings, clock>>

\* rate_service_with_images: check_user_rating_exists_for_booking
rate_check_existing(p) ==
    /\ pc[p] = "rate_check_existing"
    /\ IF check_user_rating_exists_for_booking(local[p].bid, local[p].service_name)
       THEN /\ response' = Reply("rate_service_with_images", <<local[p].client>>, FALSE,
                   "You have already rated this service for this booking", 400)
            /\ Idle(p)
       ELSE /\ Goto(p, "insert_rating_find", local[p])
            /\ UNCHANGED response
    /\ UNCHANGED webVars

\* db.insert_rating, up to and including its own look for an existing rating
insert_rating_find(p) ==
    /\ pc[p] = "insert_rating_find"
    /\ LET name == normalized_service_name(local[p].service_name)
       IN IF check_user_rating_exists_for_booking(local[p].bid, name)
          THEN /\ response' = Reply("rate_service_with_images", <<local[p].client>>, FALSE,
                      "Internal server error", 500)
               /\ Idle(p)
          ELSE /\ Goto(p, "insert_rating_insert", [local[p] EXCEPT !.service_name = name])
               /\ UNCHANGED response
    /\ UNCHANGED webVars

\* db.insert_rating: ratings_collection.insert_one, and the route's answer
insert_rating_insert(p) ==
    /\ pc[p] = "insert_rating_insert"
    /\ LET doc == [booking_id |-> local[p].bid, service_name |-> local[p].service_name,
                   rating |-> local[p].rating, user_name |-> local[p].user_name,
                   user_email |-> local[p].user_email]
       IN IF booking_service_unique_violated(doc)
          THEN /\ response' = Reply("rate_service_with_images", <<local[p].client>>, FALSE,
                      "Internal server error", 500)
               /\ UNCHANGED ratings
          ELSE /\ ratings' = Append(ratings, doc)
               /\ response' = Reply("rate_service_with_images", <<local[p].client>>, TRUE,
                      "Thank you for your rating!", 0)
    /\ Idle(p)
    /\ UNCHANGED <<sessions, admin_logged_in, bookings, clock>>

\* ------------------------------------------------------------- inputs
PrebookRequest(email, contact, preferred_date, services) ==
    [name |-> "Asha", contact |-> contact, email |-> email, area |-> "Hassan",
     district |-> "Hassan", taluk |-> "Hassan",
     preferred_date |-> preferred_date, time |-> "10:00", services |-> services]

ServiceInputs ==
    { ServicesList(<<Entry("str", "Puncturing", 0)>>),
      ServicesList(<<Entry("str", "waxing", 0), Entry("str", "Waxing", 0)>>),
      ServicesList(<<Entry("dict", "Puncturing", 50)>>),
      ServicesString("Oil") }

AmountInputs ==
    { <<Entry("dict", "Puncturing", 50)>>,
      <<Entry("dict", "waxing", 30), Entry("dict", "Waxing", 40)>>,
      <<>>,
      <<Entry("str", "Puncturing", 0)>> }

SingleAmounts == {100, -5}

RateForms ==
    [user_name : {"asha", "Ravi"},
     service_name : {"Puncturing", "puncturing", "waxing", "Waxing"},
     booking_id : (DOMAIN bookings) \cup {0},
     rating : {"4", "6", "x"}]

RescheduleDates == {"tomorrow", "yesterday", "someday", ""}

BookingIds == (DOMAIN bookings) \cup {MaxClock + 1}

WebInit ==
    /\ sessions = [c \in Users |-> NoSession]
    /\ admin_logged_in = FALSE
    /\ bookings = <<>>
    /\ ratings = <<>>
    /\ clock = 0
    /\ pc = [p \in Procs |-> "idle"]
    /\ local = [p \in Procs |-> NoLocal]
    /\ login_wrong = [c \in Users |-> 0]
    /\ payments = <<>>

\* ------------------------------------------------ the specifications
\* a new booking is taken while fewer than MaxBookings exist
RoomForBooking == Cardinality(DOMAIN bookings) < MaxBookings

\* the booking desk: one customer, the administrator, one request at a time
BookingRequests ==
    { PrebookRequest("a@x.com", "9876543210", "tomorrow", sv) : sv \in ServiceInputs }
    \cup { PrebookRequest("a@x.com", "9876543210", "tomorrow", ServicesList(<<>>)),
           PrebookRequest("a@x.com", "9876543210", "yesterday", ServicesString("Oil")) }

Init == OtpInit /\ WebInit

Next ==
    /\ \/ /\ \/ login_as("u1")
             \/ logout("u1")
             \/ admin
             \/ admin_logout
             \/ \E req \in BookingRequests : RoomForBooking /\ prebook("u1", req)
             \/ \E bid \in BookingIds, sd \in AmountInputs : update_individual_service_amounts(bid, sd)
             \/ \E bid \in BookingIds, a \in SingleAmounts : update_service_amount(bid, a)
          /\ UNCHANGED procVars
       \/ \E bid \in BookingIds : complete_booking_find("w1", bid)
       \/ complete_booking_update("w1")
       \/ \E bid \in BookingIds : reject_booking_find("w1", bid)
       \/ reject_booking_update("w1")
       \/ \E bid \in BookingIds : cancel_booking_find("w1", "u1", bid)
       \/ cancel_booking_update("w1")
       \/ \E bid \in BookingIds, d \in RescheduleDates : reschedule_booking_find("w1", "u1", bid, d, "11:00")
       \/ reschedule_booking_update("w1")
    /\ UNCHANGED <<otpVars, ratings, histVars, payVars>>

Spec == Init /\ [][Next]_vars

\* the rating desk: two customers, the administrator, one request at a time
RatingRequests ==
    { PrebookRequest(e, "9876543210", "tomorrow", ServicesList(sv)) :
          e \in {"a@x.com", "b@x.com"},
          sv \in { <<Entry("str", "Puncturing", 0)>>,
                   <<Entry("str", "waxing", 0), Entry("str", "Waxing", 0)>> } }

RatingNext ==
    /\ \/ /\ \/ \E c \in Clients : login_as(c)
             \/ \E c \in Clients, e \in {"b@x.com", ""} : send_otp(c, e, "123456", TRUE)
             \/ \E c \in Clients, otp \in Codes : verify_otp_route(c, "a@x.com", otp)
             \/ admin
             \/ \E c \in Clients, req \in RatingRequests : RoomForBooking /\ prebook(c, req)
          /\ UNCHANGED procVars
       \/ \E bid \in BookingIds : complete_booking_find("w1", bid)
       \/ complete_booking_update("w1")
       \/ \E c \in Clients, form \in RateForms : rate_service_with_images("w1", c, form)
       \/ rate_check_existing("w1")
       \/ insert_rating_find("w1")
       \/ insert_rating_insert("w1")
    /\ UNCHANGED <<otpVars, histVars, payVars>>

SpecRating == Init /\ [][RatingNext]_vars

\* two rating requests of one customer served by two workers at once
RaceForms ==
    [user_name : {"Asha"}, service_name : {"Puncturing", "waxing", "Waxing"},
     booking_id : DOMAIN bookings, rating : {"4"}]

RaceNext ==
    /\ \/ /\ \/ login_as("u1")
             \/ admin
             \/ \E req \in RatingRequests : RoomForBooking /\ prebook("u1", req)
          /\ UNCHANGED procVars
       \/ \E p \in Procs :
             \/ \E bid \in DOMAIN bookings : complete_booking_find(p, bid)
             \/ complete_booking_update(p)
             \/ \E form \in RaceForms : rate_service_with_images(p, "u1", form)
             \/ rate_check_existing(p)
             \/ insert_rating_find(p)
             \/ insert_rating_insert(p)
    /\ UNCHANGED <<otpVars, histVars, payVars>>

SpecRace == Init /\ [][RaceNext]_vars

\* the life of a challenge: issue, verify, clear
OtpNext ==
    /\ \/ \E t \in OtpTypes : can_resend_otp(t)
       \/ \E otp \in Codes, t \in OtpTypes, e \in Emails, ud \in UserData :
             store_otp(otp, t, e, ud)
       \/ \E otp \in Codes, t \in OtpTypes : verify_otp(otp, t)
       \/ \E t \in OtpTypes : clear_otp(t)
       \/ \E d \in TickSteps : Tick(d)
    /\ UNCHANGED <<webVars, procVars, histVars, payVars>>

SpecOtp == Init /\ [][OtpNext]_vars

\* issuance: the rate limit and the cooldown, with the challenge they guard
RateNext ==
    /\ \/ \E e \in Emails, t \in RateTypes : check_rate_limit(e, t)
       \/ \E t \in RateTypes : can_resend_otp(t)
       \/ \E otp \in Codes, t \in RateTypes, e \in Emails : store_otp(otp, t, e, None)
       \/ \E otp \in Codes, t \in RateTypes : verify_otp(otp, t)
       \/ \E t \in RateTypes : clear_otp(t)
       \/ cleanup_expired_otps
       \/ \E d \in RateTickSteps : RateTick(d)
    /\ UNCHANGED <<webVars, procVars, histVars, payVars>>

SpecRate == Init /\ [][RateNext]_vars

\* complete, reject and cancel requests for one booking served by two workers
\* at once
TransitionRequests ==
    { PrebookRequest("a@x.com", "9876543210", "tomorrow",
                     ServicesList(<<Entry("str", "Puncturing", 0)>>)) }

TransitionNext ==
    /\ \/ /\ \/ login_as("u1")
             \/ admin
             \/ \E req \in TransitionRequests : RoomForBooking /\ prebook("u1", req)
          /\ UNCHANGED procVars
       \/ \E p \in Procs :
             \/ \E bid \in DOMAIN bookings : complete_booking_find(p, bid)
             \/ complete_booking_update(p)
             \/ \E bid \in DOMAIN bookings : reject_booking_find(p, bid)
             \/ reject_booking_update(p)
             \/ \E bid \in DOMAIN bookings : cancel_booking_find(p, "u1", bid)
             \/ cancel_booking_update(p)
    /\ UNCHANGED <<otpVars, ratings, histVars, payVars>>

SpecTransitions == Init /\ [][TransitionNext]_vars

\* the owner of a booking and a namesake with another account, served one
\* request at a time
OwnerClients == {"u1", "u3"}

OwnerNext ==
    /\ \/ /\ \/ \E c \in OwnerClients : login_as(c)
             \/ send_otp("u3", "c@x.com", "123456", TRUE)
             \/ \E otp \in Codes : verify_otp_route("u3", "a@x.com", otp)
             \/ admin
             \/ \E req \in TransitionRequests : RoomForBooking /\ prebook("u1", req)
          /\ UNCHANGED procVars
       \/ \E bid \in DOMAIN bookings : complete_booking_find("w1", bid)
       \/ complete_booking_update("w1")
       \/ \E c \in OwnerClients, bid \in BookingIds : cancel_booking_find("w1", c, bid)
       \/ cancel_booking_update("w1")
       \/ \E c \in OwnerClients, bid \in BookingIds, d \in RescheduleDates :
             reschedule_booking_find("w1", c, bid, d, "11:00")
       \/ reschedule_booking_update("w1")
    /\ UNCHANGED <<otpVars, ratings, histVars, payVars>>

SpecOwner == Init /\ [][OwnerNext]_vars

\* the booking form: requests that fail one check each, and requests that
\* pass them all
ValidRequest == PrebookRequest("a@x.com", "9876543210", "today", ServicesString("Oil"))

ValidationRequests ==
    { PrebookRequest(e, n, d, sv) :
          e \in {"a@x.com", "b@x.com"}, n \in {"9876543210", "987654321012345"},
          d \in {"today", "tomorrow"}, sv \in ServiceInputs }
    \cup { [ValidRequest EXCEPT ![f] = ""] :
              f \in {"name", "contact", "email", "area", "district", "taluk",
                     "preferred_date", "time"} }
    \cup { [ValidRequest EXCEPT !.services = sv] : sv \in {ServicesString(""), ServicesList(<<>>)} }
    \cup { [ValidRequest EXCEPT !.email = e] :
              e \in {"nobody", "a@x", "a@@x.com", "@x.com", "a@.com", "a@x."} }
    \cup { [ValidRequest EXCEPT !.contact = n] :
              n \in {"987654321", "9876543210123456", "98765x3210"} }
    \cup { [ValidRequest EXCEPT !.preferred_date = d] : d \in {"yesterday", "someday"} }

PrebookNext ==
    /\ \/ \E c \in Clients : login_as(c)
       \/ \E c \in Clients : logout(c)
       \/ \E c \in Clients, req \in ValidationRequests : RoomForBooking /\ prebook(c, req)
    /\ UNCHANGED <<otpVars, procVars, ratings, histVars, payVars>>

SpecPrebook == Init /\ [][PrebookNext]_vars

\* ---------------------------------------------------------- the login flow
\* how many wrong codes the history counts for one issued code
MaxWrongCodes == 3

\* the passwords of the accounts (bcrypt.checkpw against password_hash)
Password(u) == CASE u = "u1" -> "pw-a" [] u = "u2" -> "pw-b" [] OTHER -> "pw-c"
LoginEmails == {"a@x.com", "b@x.com", "nobody", ""}
LoginPasswords == {"pw-a", "pw-b", ""}

\* db.get_user_by_email(email): the account of the address, or None
get_user_by_email(email) ==
    IF \E u \in Users : UserEmail(u) = email
    THEN CHOOSE u \in Users : UserEmail(u) = email
    ELSE None

\* /login (POST): the password check, and the code put into the session
login(c, email, password, otp, delivered) ==
    LET user == get_user_by_email(email) IN
    /\ IF sessions[c].user_id # None
       THEN /\ response' = Reply("login", <<c>>, TRUE, "user_dashboard", 0)
            /\ UNCHANGED <<sessions, login_wrong>>
       ELSE IF email = "" \/ password = ""
       THEN /\ response' = Reply("login", <<c>>, FALSE, "Please enter email and password", 0)
            /\ UNCHANGED <<sessions, login_wrong>>
       ELSE IF user = None \/ password # Password(user)
       THEN /\ response' = Reply("login", <<c>>, FALSE, "Invalid email or password", 0)
            /\ UNCHANGED <<sessions, login_wrong>>
       ELSE /\ sessions' = [sessions EXCEPT ![c] =
                   [sessions[c] EXCEPT !.login_otp = otp, !.login_otp_time = now,
                                       !.login_user_id = user,
                                       !.login_user_email = UserEmail(user),
                                       !.login_user_name = UserName(user)]]
            /\ login_wrong' = [login_wrong EXCEPT ![c] = 0]
            /\ response' = IF delivered
                           THEN Reply("login", <<c>>, TRUE, "OTP sent", 0)
                           ELSE Reply("login", <<c>>, FALSE, "Failed to send OTP", 0)
    /\ UNCHANGED <<admin_logged_in, bookings, ratings, clock>>

\* login_otp's expiry test, with the check left out
login_otp_never_expires(otp_time, current_time) == FALSE

\* login_otp's expiry test: time.time() - session['login_otp_time'] > 300
login_otp_expired(otp_time, current_time) ==
    current_time - otp_time > 300 * TicksPerSecond

\* /login-otp (POST)
login_otp(c, otp_entered) ==
    /\ IF sessions[c].login_otp = None
       THEN /\ response' = Reply("login_otp", <<c>>, FALSE, "OTP session expired", 0)
            /\ UNCHANGED <<sessions, login_wrong>>
       ELSE IF login_otp_expired(sessions[c].login_otp_time, now)
       THEN /\ response' = Reply("login_otp", <<c>>, FALSE, "OTP expired", 0)
            /\ UNCHANGED <<sessions, login_wrong>>
       ELSE IF otp_entered = sessions[c].login_otp
       THEN /\ sessions' = [sessions EXCEPT ![c] =
                   [sessions[c] EXCEPT !.user_id = sessions[c].login_user_id,
                                       !.user_email = sessions[c].login_user_email,
                                       !.user_name = sessions[c].login_user_name,
                                       !.login_user_id = None,
                                       !.login_user_email = None,
                                       !.login_user_name = None,
                                       !.login_otp = None,
                                       !.login_otp_time = 0]]
            /\ response' = Reply("login_otp", <<c>>, TRUE, "Login successful!", 0)
            /\ UNCHANGED login_wrong
       ELSE /\ response' = Reply("login_otp", <<c>>, FALSE, "Invalid OTP", 0)
            /\ login_wrong' = [login_wrong EXCEPT ![c] =
                   IF @ < MaxWrongCodes THEN @ + 1 ELSE @]
            /\ UNCHANGED sessions
    /\ UNCHANGED <<admin_logged_in, bookings, ratings, clock>>

\* one browser at the login form, and the clock
LoginClients == {"u1"}

LoginNext ==
    /\ \/ /\ \/ \E c \in LoginClients, e \in LoginEmails, pw \in LoginPasswords,
                   otp \in Codes, delivered \in BOOLEAN :
                     login(c, e, pw, otp, delivered)
             \/ \E c \in LoginClients, otp \in Codes \cup {""} : login_otp(c, otp)
             \/ \E c \in LoginClients : logout(c) /\ UNCHANGED login_wrong
          /\ UNCHANGED <<now, ticks, session, issued, stored>>
       \/ \E d \in TickSteps : Tick(d) /\ UNCHANGED <<webVars, histVars, payVars>>
    /\ UNCHANGED <<procVars, payVars>>

SpecLogin == Init /\ [][LoginNext]_vars

\* ------------------------------------------- issuance inside a request
\* Flask's session is the signed cookie of the request (app.secret_key, no
\* server-side store): a request works on the copy it opened from its cookie
\* and the browser keeps the cookie of the response it receives last.

\* an issuance request arrives: open_session reads the cookie
issue_otp_open(p, e, t, otp) ==
    /\ pc[p] = "idle"
    /\ Goto(p, "issue_check_rate_limit",
            [NoLocal EXCEPT !.op = "issue_otp", !.session = session,
                            !.email = e, !.otp_type = t, !.otp = otp])
    /\ UNCHANGED <<now, ticks, session, issued, stored, response>>

\* OTPManager.check_rate_limit(email, otp_type) on the request's session
issue_check_rate_limit(p) ==
    LET e == local[p].email
        t == local[p].otp_type
        recent_requests == SelectRecent(Get(local[p].session, KRequests(t, e), <<>>), now)
    IN /\ pc[p] = "issue_check_rate_limit"
       /\ IF Len(recent_requests) >= max_requests_per_hour
          THEN /\ response' = Reply("issue_otp", <<p>>, FALSE, "Too many OTP requests", 0)
               /\ Idle(p)
               /\ UNCHANGED <<session, issued>>
          ELSE /\ Goto(p, "issue_can_resend_otp",
                       [local[p] EXCEPT !.session =
                           Put(@, KRequests(t, e), Append(recent_requests, now))])
               /\ issued' = [issued EXCEPT ![<<t, e>>] =
                                LastN(Append(@, now), max_requests_per_hour + 1)]
               /\ UNCHANGED <<session, response>>
       /\ UNCHANGED <<now, ticks, stored>>

\* OTPManager.can_resend_otp(otp_type) on the request's session; a refusal ends
\* the request, and save_session writes the modified session to the cookie
issue_can_resend_otp(p) ==
    LET last_sent == Get(local[p].session, KLastSent(local[p].otp_type), 0)
        time_since_last == now - last_sent
    IN /\ pc[p] = "issue_can_resend_otp"
       /\ IF last_sent # 0 /\ time_since_last < resend_cooldown_seconds * TicksPerSecond
          THEN /\ response' = Reply("issue_otp", <<p>>, FALSE, "Please wait",
                      IntSeconds(resend_cooldown_seconds * TicksPerSecond - time_since_last))
               /\ session' = local[p].session
               /\ Idle(p)
          ELSE /\ Goto(p, "issue_store_otp", local[p])
               /\ UNCHANGED <<session, response>>
       /\ UNCHANGED <<now, ticks, issued, stored>>

\* OTPManager.store_otp on the request's session, then save_session
issue_store_otp(p) ==
    /\ pc[p] = "issue_store_otp"
    /\ session' = store_otp_session(local[p].session, local[p].otp, local[p].otp_type,
                                    local[p].email, None)
    /\ stored' = [stored EXCEPT ![local[p].otp_type] =
                     [time |-> now, hash |-> hash_otp(local[p].otp)]]
    /\ response' = Reply("issue_otp", <<p>>, TRUE, None, 0)
    /\ Idle(p)
    /\ UNCHANGED <<now, ticks, issued>>

\* the code generate_otp draws for the request a worker serves
IssueCode(p) == IF p = "w1" THEN "123456" ELSE "654321"
\* the clock jumps by 60 s between two steps
IssueTickSteps == {120}

\* issuance requests of one browser served by two workers at once
IssueNext ==
    /\ \/ \E p \in Procs, e \in Emails, t \in RateTypes :
             issue_otp_open(p, e, t, IssueCode(p))
       \/ \E p \in Procs : issue_check_rate_limit(p)
       \/ \E p \in Procs : issue_can_resend_otp(p)
       \/ \E p \in Procs : issue_store_otp(p)
       \/ \E d \in IssueTickSteps : RateTick(d) /\ UNCHANGED procVars
    /\ UNCHANGED <<webVars, histVars, payVars>>

SpecIssue == Init /\ [][IssueNext]_vars

\* the booking desk with a receipt renderer and an email transport that may
\* fail
NotifyRequests ==
    { PrebookRequest("a@x.com", "9876543210", "tomorrow",
                     ServicesList(<<Entry("str", "Puncturing", 0)>>)),
      PrebookRequest("a@x.com", "9876543210", "yesterday",
                     ServicesList(<<Entry("str", "Puncturing", 0)>>)) }

NotifyNext ==
    /\ \/ /\ \/ login_as("u1")
             \/ admin
             \/ admin_logout
             \/ \E req \in NotifyRequests, rendered, delivered \in BOOLEAN :
                   prebook_notified("u1", req, rendered, delivered)
          /\ UNCHANGED procVars
       \/ \E bid \in BookingIds : complete_booking_find("w1", bid)
       \/ \E rendered, delivered \in BOOLEAN :
             complete_booking_update_notified("w1", rendered, delivered)
       \/ \E bid \in BookingIds : reject_booking_find("w1", bid)
       \/ \E rendered, delivered \in BOOLEAN :
             reject_booking_update_notified("w1", rendered, delivered)
    /\ UNCHANGED <<otpVars, ratings, histVars, payVars>>

SpecNotify == Init /\ [][NotifyNext]_vars

\* ------------------------------------------------------- manual payments
\* how many manual payments the model records
MaxPayments == 2
\* how many ratings ratings_collection holds when the averages are computed
MaxRatings == 4

save_manual_payment_overriding_total(b, amount_paid, at) ==
    [b EXCEPT !.payment_status = "paid", !.updated_at = at, !.total_amount = amount_paid]

\* save_manual_payment's update_one on the booking: {"$set": {"payment_status":
\* "paid", "updated_at": datetime.now()}}
save_manual_payment_booking(b, amount_paid, at) ==
    [b EXCEPT !.payment_status = "paid", !.updated_at = at]

\* the document save_manual_payment inserts
manual_payment(bid, amount_paid, payment_mode, at) ==
    [booking_id |-> bid, amount_paid |-> amount_paid, payment_mode |-> payment_mode,
     payment_type |-> "manual", status |-> "completed", created_at |-> at]

\* POST /admin/manual-payment. The answer after the insert carries the
\* inserted_id, an ObjectId, which jsonify cannot serialize: the handler's
\* catch-all answers 500 although the payment is stored.
add_manual_payment(bid, amount_paid, payment_mode) ==
    /\ IF ~admin_logged_in
       THEN /\ response' = Reply("add_manual_payment", <<bid>>, FALSE, "Admin access required", 403)
            /\ UNCHANGED <<bookings, clock, payments>>
       ELSE IF bid = 0 \/ amount_paid = 0 \/ payment_mode = ""
       THEN /\ response' = Reply("add_manual_payment", <<bid>>, FALSE, "Missing fields", 400)
            /\ UNCHANGED <<bookings, clock, payments>>
       ELSE IF bid \notin DOMAIN bookings
       THEN /\ response' = Reply("add_manual_payment", <<bid>>, FALSE, "Booking not found", 404)
            /\ UNCHANGED <<bookings, clock, payments>>
       ELSE /\ Len(payments) < MaxPayments
            /\ clock' = clock + 1
            /\ bookings' = [bookings EXCEPT ![bid] =
                               save_manual_payment_booking(@, amount_paid, clock')]
            /\ payments' = Append(payments, manual_payment(bid, amount_paid, payment_mode, clock'))
            /\ response' = Reply("add_manual_payment", <<bid>>, FALSE, "Server error", 500)
    /\ UNCHANGED <<sessions, admin_logged_in, ratings>>

\* the cash desk: a booking, its amounts, its completion and manual payments
PaymentRequests ==
    { PrebookRequest("a@x.com", "9876543210", "tomorrow",
                     ServicesList(<<Entry("str", "Puncturing", 0)>>)) }
PaymentAmounts == {0, 100, -5}
PaymentModes == {"cash", ""}

PaymentNext ==
    /\ \/ /\ \/ login_as("u1")
             \/ admin
             \/ admin_logout
             \/ \E req \in PaymentRequests : RoomForBooking /\ prebook("u1", req)
             \/ \E bid \in DOMAIN bookings :
                   update_individual_service_amounts(bid, <<Entry("dict", "Puncturing", 50)>>)
          /\ UNCHANGED <<procVars, payVars>>
       \/ /\ \/ \E bid \in DOMAIN bookings : complete_booking_find("w1", bid)
             \/ complete_booking_update("w1")
          /\ UNCHANGED payVars
       \/ /\ \E bid \in BookingIds \cup {0}, a \in PaymentAmounts, m \in PaymentModes :
                add_manual_payment(bid, a, m)
          /\ UNCHANGED procVars
    /\ UNCHANGED <<otpVars, ratings, histVars>>

SpecPayment == Init /\ [][PaymentNext]_vars

\* the rating form with every kind of star value, one customer, one request at
\* a time
StarTexts == {"0", "1", "5", "6", "10", "4.5", "-1", "x", ""}
StarForms ==
    [user_name : {"Asha"}, service_name : {"Puncturing", "waxing"},
     booking_id : DOMAIN bookings, rating : StarTexts]
StarRequests ==
    { PrebookRequest("a@x.com", "9876543210", "tomorrow",
          ServicesList(<<Entry("str", "Puncturing", 0), Entry("str", "waxing", 0)>>)) }

StarsNext ==
    /\ \/ /\ \/ login_as("u1")
             \/ admin
             \/ \E req \in StarRequests : RoomForBooking /\ prebook("u1", req)
          /\ UNCHANGED procVars
       \/ \E bid \in DOMAIN bookings : complete_booking_find("w1", bid)
       \/ complete_booking_update("w1")
       \/ \E form \in StarForms : rate_service_with_images("w1", "u1", form)
       \/ rate_check_existing("w1")
       \/ insert_rating_find("w1")
       \/ insert_rating_insert("w1")
    /\ UNCHANGED <<otpVars, histVars, payVars>>

SpecStars == Init /\ [][StarsNext]_vars

\* an issuance gated by the cooldown: store_otp only when can_resend_otp
\* answers True, else the refusal of can_resend_otp
issue(otp, t, e) ==
    LET last_sent == Get(session, KLastSent(t), 0)
    IN IF last_sent # 0 /\ now - last_sent < resend_cooldown_seconds * TicksPerSecond
       THEN can_resend_otp(t)
       ELSE store_otp(otp, t, e, None)

\* gated issuances and verifications of one session
ResendNext ==
    /\ \/ \E otp \in Codes, t \in OtpTypes, e \in Emails : issue(otp, t, e)
       \/ \E otp \in Codes, t \in OtpTypes : verify_otp(otp, t)
       \/ \E d \in TickSteps : Tick(d)
    /\ UNCHANGED <<webVars, procVars, histVars, payVars>>

SpecResend == Init /\ [][ResendNext]_vars

\* DELETE /api/prebook/<id>, with db.delete_prebooking_by_id
get_or_delete_prebook(bid) ==
    /\ admin_logged_in
    /\ IF bid \notin DOMAIN bookings
       THEN /\ response' = Reply("get_or_delete_prebook", <<bid>>, FALSE, "Prebooking not found", 404)
            /\ UNCHANGED bookings
       ELSE /\ bookings' = Pop(bookings, bid)
            /\ response' = Reply("get_or_delete_prebook", <<bid>>, TRUE, None, 0)
    /\ UNCHANGED <<sessions, admin_logged_in, ratings, clock>>

\* what a customer rates
RatedForms ==
    [user_name : {"asha"}, service_name : {"Puncturing"},
     booking_id : (DOMAIN bookings) \cup {0}, rating : {"4", "6"}]

\* ratings of a booking, and what the administrator and the owner do to the
\* booking afterwards
RatedNext ==
    /\ \/ /\ \/ login_as("u1")
             \/ admin
             \/ \E req \in TransitionRequests : RoomForBooking /\ prebook("u1", req)
             \/ \E bid \in BookingIds : get_or_delete_prebook(bid)
          /\ UNCHANGED procVars
       \/ \E bid \in BookingIds : complete_booking_find("w1", bid)
       \/ complete_booking_update("w1")
       \/ \E bid \in BookingIds : reject_booking_find("w1", bid)
       \/ reject_booking_update("w1")
       \/ \E bid \in BookingIds : cancel_booking_find("w1", "u1", bid)
       \/ cancel_booking_update("w1")
       \/ \E form \in RatedForms : rate_service_with_images("w1", "u1", form)
       \/ rate_check_existing("w1")
       \/ insert_rating_find("w1")
       \/ insert_rating_insert("w1")
    /\ UNCHANGED <<otpVars, histVars, payVars>>

SpecRated == Init /\ [][RatedNext]_vars

\* --------------------------------------------------- average ratings
RECURSIVE SumStars(_)
\* sum(ratings_list)
SumStars(ratings_list) ==
    IF ratings_list = <<>> THEN 0 ELSE Head(ratings_list) + SumStars(Tail(ratings_list))

\* calculate_average_ratings: the group a rating's service name is put in
canonical_name(service_name) ==
    IF get_service_by_name(service_name) # None
    THEN get_service_by_name(service_name)
    ELSE Capitalize(service_name)

RECURSIVE service_ratings_of(_, _)
\* calculate_average_ratings: service_ratings[canonical_name] after the loop
\* over the ratings, the stars in the order of the ratings
service_ratings_of(rs, g) ==
    IF rs = <<>> THEN <<>>
    ELSE IF Head(rs).service_name # "" /\ canonical_name(Head(rs).service_name) = g
    THEN <<Head(rs).rating>> \o service_ratings_of(Tail(rs), g)
    ELSE service_ratings_of(Tail(rs), g)

round_one_decimal_down(total, count) ==
    (10 * total) \div count

\* round(float(total / count), 1), in tenths: to the nearest tenth, and to the
\* even tenth when total / count lies exactly between two tenths
round_one_decimal(total, count) ==
    LET q == (10 * total) \div count
        r == (10 * total) % count
    IN IF 2 * r < count THEN q
       ELSE IF 2 * r > count THEN q + 1
       ELSE IF q % 2 = 0 THEN q ELSE q + 1

\* db.calculate_average_ratings() over the ratings rs: per group the average
\* in tenths and the count
avg_ratings(rs) ==
    LET groups == { canonical_name(rs[i].service_name) :
                       i \in { j \in 1..Len(rs) : rs[j].service_name # "" } }
    IN [g \in groups |->
           [average |-> round_one_decimal(SumStars(service_ratings_of(rs, g)),
                                          Len(service_ratings_of(rs, g))),
            count |-> Len(service_ratings_of(rs, g))]]

calculate_average_ratings ==
    /\ response.op # "calculate_average_ratings"
    /\ response' = Reply("calculate_average_ratings", <<>>, TRUE, None, avg_ratings(ratings))
    /\ UNCHANGED <<otpVars, webVars, procVars, histVars, payVars>>

\* the ratings ratings_collection may hold
AverageNames == {"puncturing", "waxing", "Waxing", ""}
AverageStars == {4, 5}
StoredRatings ==
    [booking_id : {1}, service_name : AverageNames, rating : AverageStars,
     user_name : {"asha"}, user_email : {"a@x.com"}]

AverageInit ==
    /\ OtpInit
    /\ sessions = [c \in Users |-> NoSession]
    /\ admin_logged_in = FALSE
    /\ bookings = <<>>
    /\ ratings \in UNION { [1..n -> StoredRatings] : n \in 0..MaxRatings }
    /\ clock = 0
    /\ pc = [p \in Procs |-> "idle"]
    /\ local = [p \in Procs |-> NoLocal]
    /\ login_wrong = [c \in Users |-> 0]
    /\ payments = <<>>

AverageNext == calculate_average_ratings

SpecAverage == AverageInit /\ [][AverageNext]_vars

\* ================================================================ claims

\* C4: verify_otp never succeeds when more than 300 seconds have passed since
\* store_otp stored the challenge, whatever code is entered: it answers that
\* the OTP has expired and removes every key of the challenge, and a verify_otp
\* that follows an expired answer finds no OTP.
C4_ExpiredNeverVerifies ==
    [][\A otp \in Codes, t \in OtpTypes :
          /\ ( /\ verify_otp(otp, t)
               /\ KOtp(t) \in DOMAIN session
               /\ now - stored[t].time > 300 * TicksPerSecond )
             => ( /\ ~response'.ok
                  /\ response'.msg = "OTP has expired"
                  /\ \A k \in DOMAIN session' : k[1] # t )
          /\ ( /\ verify_otp(otp, t)
               /\ response.op = "verify_otp"
               /\ response.args[2] = t
               /\ response.msg = "OTP has expired" )
             => ( ~response'.ok /\ response'.msg = "No OTP found" )]_vars

\* the correct code was entered 300.5 s or later after store_otp and was
\* answered with the expiry
C4_Witness ==
    /\ response.op = "verify_otp"
    /\ response.msg = "OTP has expired"
    /\ hash_otp(response.args[1]) = stored[response.args[2]].hash
    /\ now - stored[response.args[2]].time > 300 * TicksPerSecond
    /\ KOtp(response.args[2]) \notin DOMAIN session

\* C5: once 3 wrong codes have been counted against a stored challenge, every
\* verify_otp for that purpose fails, the correct code included, and while the
\* challenge has not expired it is left as it is; with no challenge stored
\* verify_otp fails as well; a verify_otp with the code of a store_otp made since,
\* before that code expires, succeeds.
C5_LockedUntilReissued ==
    [][\A otp \in Codes, t \in OtpTypes :
          /\ ( /\ verify_otp(otp, t)
               /\ KOtp(t) \in DOMAIN session
               /\ Get(session, KAttempts(t), 0) >= 3 )
             => ( /\ ~response'.ok
                  /\ now - stored[t].time <= 300 * TicksPerSecond
                        => ( /\ response'.msg = "Too many failed attempts"
                             /\ session' = session ) )
          /\ (verify_otp(otp, t) /\ KOtp(t) \notin DOMAIN session) => ~response'.ok
          /\ ( /\ verify_otp(otp, t)
               /\ response.op = "store_otp"
               /\ response.args[1] = otp
               /\ response.args[2] = t
               /\ now - stored[t].time <= 300 * TicksPerSecond )
             => response'.ok
          /\ \A e \in Emails, ud \in UserData \cup {None} :
                store_otp(otp, t, e, ud) => Get(session', KAttempts(t), 0) = 0]_vars

\* the correct code was entered after 3 wrong ones and was refused
C5_Witness ==
    /\ response.op = "verify_otp"
    /\ response.msg = "Too many failed attempts"
    /\ KOtp(response.args[2]) \in DOMAIN session
    /\ hash_otp(response.args[1]) = session[KOtp(response.args[2])]
    /\ Get(session, KAttempts(response.args[2]), 0) = 3

\* how many of the admitted issuances for (t, e) lie in the last 60 minutes
AdmittedInWindow(t, e) ==
    Cardinality({ i \in 1..Len(issued[<<t, e>>]) :
                     now - issued[<<t, e>>][i] < 3600 * TicksPerSecond })

\* C6: a check_rate_limit called when 5 issuances for the same (otp_type,
\* email) were admitted within the last 60 minutes is refused and changes no
\* session key.
C6_SixthIssuanceRefused ==
    [][\A e \in Emails, t \in OtpTypes :
          (check_rate_limit(e, t) /\ AdmittedInWindow(t, e) >= 5)
             => (~response'.ok /\ session' = session)]_vars

\* C7: a can_resend_otp called less than 60 seconds after the previous
\* store_otp for the purpose refuses with the whole seconds that remain of the
\* 60, and changes no session key.
C7_CooldownRefused ==
    [][\A t \in OtpTypes :
          ( /\ can_resend_otp(t)
            /\ stored[t].time # 0
            /\ now - stored[t].time < 60 * TicksPerSecond )
             => ( /\ ~response'.ok
                  /\ response'.val = (60 * TicksPerSecond - (now - stored[t].time)) \div TicksPerSecond
                  /\ session' = session )]_vars


\* the name the specification calls canonical: the catalog's name when the
\* catalog has the service in any letter case, else the capitalized form
CanonicalName(n) ==
    IF get_service_by_name(n) # None THEN get_service_by_name(n) ELSE Capitalize(n)

Terminal == {"completed", "cancelled", "rejected"}

\* C1: the status of a booking changes only from pending to completed,
\* cancelled or rejected; the update of a complete, reject or cancel request
\* that reaches a booking whose status is already one of these three fails and
\* leaves the booking as it is.
C1_StatusLifecycle ==
    [][/\ \A bid \in DOMAIN bookings :
             /\ bid \in DOMAIN bookings'
             /\ bookings'[bid].status # bookings[bid].status
                   => ( /\ bookings[bid].status = "pending"
                        /\ bookings'[bid].status \in Terminal )
       /\ \A p \in Procs :
             ( /\ \/ complete_booking_update(p)
                  \/ reject_booking_update(p)
                  \/ cancel_booking_update(p)
               /\ local[p].bid \in DOMAIN bookings
               /\ bookings[local[p].bid].status \in Terminal )
                => ( bookings' = bookings /\ ~response'.ok )]_vars

\* C2: the ratings never hold two documents with the same booking_id and the
\* same canonical service name, whatever the interleaving of the requests.
C2_OneRatingPerPair ==
    \A i, j \in 1..Len(ratings) :
        i < j => ~( /\ ratings[i].booking_id = ratings[j].booking_id
                    /\ CanonicalName(ratings[i].service_name)
                         = CanonicalName(ratings[j].service_name) )

\* C3: a rating request inserts a rating only for a booking that exists, is
\* completed, belongs to the logged-in user who sent the request, and lists
\* the submitted service under its canonical name.
C3_RatingOnlyForOwnCompletedBooking ==
    [][\A p \in Procs :
          (insert_rating_insert(p) /\ ratings' # ratings)
             => /\ local[p].bid \in DOMAIN bookings
                /\ bookings[local[p].bid].status = "completed"
                /\ bookings[local[p].bid].user_id = local[p].user_id
                /\ \E i \in 1..Len(bookings[local[p].bid].services) :
                      CanonicalName(bookings[local[p].bid].services[i].name)
                         = CanonicalName(local[p].service_name)]_vars

\* C8: total_service_amount of every booking equals the sum of the amounts of
\* its current service list.
C8_TotalIsSumOfAmounts ==
    \A bid \in DOMAIN bookings :
        bookings[bid].total_service_amount = SumAmounts(bookings[bid].services)

\* C9: an accepted amount assignment leaves total_amount equal to the stored
\* total of the service amounts: to service_amount after
\* update_booking_service_amount, to total_service_amount after
\* update_booking_service_amounts; nothing is added.
C9_TotalAmountWithoutSurcharge ==
    [][/\ \A bid \in DOMAIN bookings, a \in SingleAmounts :
             (update_service_amount(bid, a) /\ response'.ok)
                => bookings'[bid].total_amount = bookings'[bid].service_amount
       /\ \A bid \in DOMAIN bookings, sd \in AmountInputs :
             (update_individual_service_amounts(bid, sd) /\ response'.ok)
                => bookings'[bid].total_amount = bookings'[bid].total_service_amount]_vars

\* C10: a rating request of the booking's owner for a completed booking, whose
\* service name equals a service of the booking up to letter case and for
\* which the booking has no rating yet, is not refused.
C10_CaseInsensitiveEligibility ==
    [][\A p \in {q \in Procs : pc[q] = "idle"}, c \in Clients, form \in RateForms :
          ( /\ sessions[c].user_id = c
            /\ sessions[c].user_email = UserEmail(c)
            /\ sessions[c].user_name = UserName(c)
            /\ Lower(form.user_name) = Lower(UserName(c))
            /\ ParseInt(form.rating) \in 1..5
            /\ form.booking_id \in DOMAIN bookings
            /\ bookings[form.booking_id].status = "completed"
            /\ bookings[form.booking_id].user_id = c
            /\ \E i \in 1..Len(bookings[form.booking_id].services) :
                  Lower(bookings[form.booking_id].services[i].name) = Lower(form.service_name)
            /\ ~\E i \in 1..Len(ratings) :
                  /\ ratings[i].booking_id = form.booking_id
                  /\ Lower(ratings[i].service_name) = Lower(form.service_name)
            /\ rate_service_with_images(p, c, form) )
             => pc'[p] = "rate_check_existing"]_vars

\* a rating request of the owner of a completed booking, in the owner's own
\* session, for a service the booking lists up to letter case
OwnerRequest(c, form) ==
    /\ sessions[c].user_id = c
    /\ sessions[c].user_email = UserEmail(c)
    /\ sessions[c].user_name = UserName(c)
    /\ Lower(form.user_name) = Lower(UserName(c))
    /\ ParseInt(form.rating) \in 1..5
    /\ form.booking_id \in DOMAIN bookings
    /\ bookings[form.booking_id].status = "completed"
    /\ bookings[form.booking_id].user_id = c
    /\ \E i \in 1..Len(bookings[form.booking_id].services) :
          Lower(bookings[form.booking_id].services[i].name) = Lower(form.service_name)

\* the booking has a rating for the service name, in any letter case
RatedAlready(bid, service_name) ==
    \E i \in 1..Len(ratings) :
        /\ ratings[i].booking_id = bid
        /\ Lower(ratings[i].service_name) = Lower(service_name)

\* C11: a rating request for a (booking, service) pair that already has a
\* rating, the service name in any letter case, reaches the look for an
\* existing rating, is refused there as already rated, and leaves the ratings
\* as they are.
C11_SecondRatingRefusedAsAlreadyRated ==
    [][/\ \A p \in {q \in Procs : pc[q] = "idle" /\ ratings # <<>>}, c \in Clients, form \in RateForms :
             ( /\ pc'[p] = "rate_check_existing" \/ response' # response
               /\ OwnerRequest(c, form)
               /\ RatedAlready(form.booking_id, form.service_name)
               /\ rate_service_with_images(p, c, form) )
                => ( pc'[p] = "rate_check_existing" /\ ratings' = ratings )
       /\ \A p \in Procs :
             ( /\ pc[p] = "rate_check_existing"
               /\ RatedAlready(local[p].bid, local[p].service_name)
               /\ rate_check_existing(p) )
                => ( /\ ~response'.ok
                     /\ response'.msg = "You have already rated this service for this booking"
                     /\ ratings' = ratings )]_vars

\* the worker is about to write the status of a booking that it read as
\* pending and that another request has moved on since
LostRace(p) ==
    /\ pc[p] \in {"complete_booking_update", "reject_booking_update", "cancel_booking_update"}
    /\ local[p].status = "pending"
    /\ local[p].bid \in DOMAIN bookings
    /\ bookings[local[p].bid].status # "pending"

\* C12: of the complete, reject and cancel requests that read the same booking
\* as pending, the one that writes first wins: a write that comes after it
\* reports a failure and does not overwrite the status.
C12_OneTransitionWins ==
    [][\A p \in Procs :
          ( /\ LostRace(p)
            /\ \/ complete_booking_update(p)
               \/ reject_booking_update(p)
               \/ cancel_booking_update(p) )
             => ( /\ ~response'.ok
                  /\ bookings'[local[p].bid].status = bookings[local[p].bid].status )]_vars

\* C13: a complete_booking request for a booking that is not pending answers
\* with a failure and leaves status, completed_at and updated_at as they are;
\* completed_at, once stamped, is never stamped again.
C13_CompleteOnlyPending ==
    [][/\ \A p \in Procs, bid \in DOMAIN bookings :
             (bookings[bid].status # "pending" /\ complete_booking_find(p, bid))
                => (pc'[p] = "idle" /\ ~response'.ok)
       /\ \A p \in Procs :
             ( /\ pc[p] = "complete_booking_update"
               /\ local[p].bid \in DOMAIN bookings
               /\ bookings[local[p].bid].status # "pending"
               /\ complete_booking_update(p) )
                => ( /\ ~response'.ok
                     /\ bookings'[local[p].bid].status = bookings[local[p].bid].status
                     /\ bookings'[local[p].bid].completed_at = bookings[local[p].bid].completed_at
                     /\ bookings'[local[p].bid].updated_at = bookings[local[p].bid].updated_at )
       /\ \A bid \in DOMAIN bookings :
             bookings[bid].completed_at # 0
                => bookings'[bid].completed_at = bookings[bid].completed_at]_vars

\* C14: a reject_booking request for a booking that is not pending answers
\* with a failure and leaves the status as it is; the status becomes rejected
\* only from pending.
C14_RejectOnlyPending ==
    [][/\ \A p \in Procs, bid \in DOMAIN bookings :
             (bookings[bid].status # "pending" /\ reject_booking_find(p, bid))
                => (pc'[p] = "idle" /\ ~response'.ok)
       /\ \A p \in Procs :
             ( /\ pc[p] = "reject_booking_update"
               /\ local[p].bid \in DOMAIN bookings
               /\ bookings[local[p].bid].status # "pending"
               /\ reject_booking_update(p) )
                => ( /\ ~response'.ok
                     /\ bookings'[local[p].bid].status = bookings[local[p].bid].status )
       /\ \A bid \in DOMAIN bookings :
             (bookings'[bid].status = "rejected" /\ bookings[bid].status # "rejected")
                => bookings[bid].status = "pending"]_vars

\* C15: a cancel_booking request goes on to its write only when the booking
\* belongs to the logged-in user who sent it and is pending, and its write
\* changes a booking only of that user; any other request is refused and
\* leaves the bookings as they are.
C15_CancelOnlyOwnPending ==
    [][/\ \A p \in Procs, c \in Users, bid \in DOMAIN bookings :
             ( /\ pc[p] = "idle"
               /\ sessions[c].user_id # bookings[bid].user_id \/ bookings[bid].status # "pending"
               /\ cancel_booking_find(p, c, bid) )
                => (pc'[p] = "idle" /\ bookings' = bookings)
       /\ \A p \in Procs :
             ( /\ pc[p] = "cancel_booking_update"
               /\ cancel_booking_update(p)
               /\ bookings' # bookings )
                => ( /\ bookings[local[p].bid].user_id = local[p].user_id
                     /\ bookings[local[p].bid].status = "pending" )]_vars

\* C16: a reschedule_booking request goes on to its write only when the
\* booking belongs to the logged-in user who sent it, is pending, and the new
\* date is a date not before today; any other request leaves the bookings as
\* they are; the write changes neither status nor services nor totals.
C16_RescheduleOnlyOwnPending ==
    [][/\ \A p \in Procs, c \in Users, bid \in DOMAIN bookings, d \in RescheduleDates :
             ( /\ pc[p] = "idle"
               /\ \/ sessions[c].user_id # bookings[bid].user_id
                  \/ bookings[bid].status # "pending"
                  \/ ~DateOk(d)
                  \/ DateInPast(d)
               /\ reschedule_booking_find(p, c, bid, d, "11:00") )
                => (pc'[p] = "idle" /\ bookings' = bookings)
       /\ \A p \in Procs :
             ( /\ pc[p] = "reschedule_booking_update"
               /\ reschedule_booking_update(p)
               /\ bookings' # bookings )
                => ( /\ bookings[local[p].bid].user_id = local[p].user_id
                     /\ bookings[local[p].bid].status = "pending"
                     /\ bookings'[local[p].bid].status = bookings[local[p].bid].status
                     /\ bookings'[local[p].bid].services = bookings[local[p].bid].services
                     /\ bookings'[local[p].bid].total_service_amount
                          = bookings[local[p].bid].total_service_amount
                     /\ bookings'[local[p].bid].total_amount = bookings[local[p].bid].total_amount )]_vars

\* the service names a request asks for
RequestedNames(services) ==
    IF services.kind = "string" THEN {services.text}
    ELSE {services.items[i].name : i \in 1..Len(services.items)}

\* C17: the booking a prebook request persists is pending, has both totals 0,
\* and lists {name, amount} records with amount 0 whose names are requested
\* services, whether the request gave one string, a list of strings or a list
\* of records.
C17_PersistedBookingNormalized ==
    [][\A c \in Users, req \in BookingRequests :
          (clock' = clock + 1 /\ bookings' # bookings /\ prebook(c, req))
             => LET b == bookings'[clock']
                IN /\ b.status = "pending"
                   /\ b.total_service_amount = 0
                   /\ b.total_amount = 0
                   /\ \A i \in 1..Len(b.services) :
                         /\ b.services[i].kind = "dict"
                         /\ b.services[i].amount = 0
                         /\ b.services[i].name \in RequestedNames(req.services)]_vars

\* the text has the shape local@domain.tld: one "@", something before it, and
\* after it a "." with something on both sides
AddressShaped(e) ==
    LET cs == Chars(e)
        ats == {k \in 1..Len(cs) : cs[k] = "@"}
    IN /\ Cardinality(ats) = 1
       /\ \E i \in ats : /\ i > 1
                         /\ \E j \in (i + 2)..(Len(cs) - 1) : cs[j] = "."

\* the text is 10 to 15 decimal digits
TenToFifteenDigits(n) ==
    /\ Len(Chars(n)) \in 10..15
    /\ {Chars(n)[k] : k \in 1..Len(Chars(n))} \subseteq {"0", "1", "2", "3", "4", "5", "6", "7", "8", "9"}

\* a check of the booking form fails for the request
FailsValidation(req) ==
    \/ \E f \in {"name", "contact", "email", "area", "district", "taluk", "preferred_date", "time"} :
          req[f] = ""
    \/ ~AddressShaped(req.email)
    \/ ~TenToFifteenDigits(req.contact)
    \/ req.preferred_date \notin {"today", "tomorrow"}
    \/ req.services \in {ServicesString(""), ServicesList(<<>>)}

\* C18: a prebook request that misses a required field, or whose email is not
\* address shaped, or whose contact is not 10 to 15 digits, or whose date is
\* before today, or that asks for no service, is answered with an error and
\* persists nothing; a booking is persisted only for a request that passes
\* all these checks.
C18_PrebookValidation ==
    [][\A c \in Clients, req \in ValidationRequests :
          prebook(c, req)
             => /\ FailsValidation(req) => (~response'.ok /\ bookings' = bookings)
                /\ bookings' # bookings => (~FailsValidation(req) /\ response'.ok)]_vars

\* a logged-in customer's request with a 16 digit contact was refused and
\* nothing is booked
C18_Witness ==
    /\ response.op = "prebook"
    /\ ~response.ok
    /\ response.msg = "Invalid contact"
    /\ sessions[response.args[1]].user_id # None
    /\ bookings = <<>>

\* a step that is a /login request of client c
IsLoginStep(c) ==
    \E e \in LoginEmails, pw \in LoginPasswords, otp \in Codes, delivered \in BOOLEAN :
        login(c, e, pw, otp, delivered)

\* the login challenge held by a session: the code, its time and its account
LoginChallenge(s) == <<s.login_otp, s.login_otp_time, s.login_user_id>>

\* C19: a session becomes authenticated only by a login_otp step whose code
\* equals the code /login issued for that account, at most 300 seconds after
\* issuance, and it is then bound to that account; a /login step, even with the
\* correct password, only issues the code and never sets user_id; a successful
\* login_otp removes the code, and a session without a code cannot be
\* authenticated by submitting one.
C19_AuthenticatedOnlyByLoginOtp ==
    [][\A c \in LoginClients :
        /\ (sessions[c].user_id = None /\ sessions'[c].user_id # None)
              => /\ sessions[c].login_otp # None
                 /\ login_otp(c, sessions[c].login_otp)
                 /\ now - sessions[c].login_otp_time <= 300 * TicksPerSecond
                 /\ sessions'[c].user_id = sessions[c].login_user_id
                 /\ sessions'[c].login_otp = None
        /\ (sessions[c].user_id = None /\ sessions[c].login_otp = None)
              => sessions'[c].user_id = None
        /\ \A e \in LoginEmails, pw \in LoginPasswords, otp \in Codes, delivered \in BOOLEAN :
              login(c, e, pw, otp, delivered)
                 => /\ sessions'[c].user_id = sessions[c].user_id
                    /\ sessions'[c] # sessions[c]
                          => /\ get_user_by_email(e) # None
                             /\ pw = Password(get_user_by_email(e))
                             /\ LoginChallenge(sessions'[c]) = <<otp, now, get_user_by_email(e)>>
        /\ (LoginChallenge(sessions'[c]) # LoginChallenge(sessions[c])
              /\ sessions'[c].login_otp # None)
              => IsLoginStep(c)]_vars

\* an account authenticated by the code of its challenge, some time after it
\* was issued, and the code gone from the session
C19_Witness ==
    /\ response.op = "login_otp"
    /\ response.ok
    /\ sessions["u1"].user_id = "u2"
    /\ sessions["u1"].login_otp = None
    /\ now > 120

\* C20: once 3 wrong codes have been submitted against the issued login code,
\* no login_otp step authenticates the session, whatever code it carries; only
\* a new /login, which issues a new code, opens the way again.
C20_LoginLockedAfterThreeWrongCodes ==
    [][\A c \in LoginClients, otp \in Codes :
          (login_wrong[c] >= 3 /\ sessions[c].user_id = None /\ login_otp(c, otp))
             => sessions'[c].user_id = None]_vars

\* the issuances for (t, e) of the last 60 minutes that the session records
RecordedInWindow(t, e) == Len(SelectRecent(Get(session, KRequests(t, e), <<>>), now))

\* C21: issuances for one (purpose, identity) serialize on the counters: never
\* more than 5 are admitted within 60 minutes, however the requests interleave,
\* and when no request is in flight the session records every admitted
\* issuance of the window.
C21_IssuancesSerialize ==
    \A e \in Emails, t \in RateTypes :
        /\ AdmittedInWindow(t, e) <= 5
        /\ (\A p \in Procs : pc[p] = "idle")
              => RecordedInWindow(t, e) >= AdmittedInWindow(t, e)

\* a worker is refused by insert_rating because the pair is already rated: by
\* insert_rating's own look, or by the unique index at insert_one
InsertRefused(p) ==
    \/ /\ pc[p] = "insert_rating_find"
       /\ check_user_rating_exists_for_booking(local[p].bid,
              normalized_service_name(local[p].service_name))
       /\ insert_rating_find(p)
    \/ /\ pc[p] = "insert_rating_insert"
       /\ ratings' = ratings
       /\ insert_rating_insert(p)

\* C22: a rating request whose insert is refused because the (booking,
\* service) pair is already rated, as happens to the loser of two concurrent
\* requests, answers with the already-rated refusal and not with a generic
\* internal error.
C22_RefusedInsertReportsAlreadyRated ==
    [][\A p \in Procs :
          InsertRefused(p)
             => /\ ~response'.ok
                /\ response'.msg # "Internal server error"
                /\ response'.val # 500]_vars

\* the state change a handler committed in this step: a new pending booking,
\* or the booking set to the status
Committed(kind, bid) ==
    /\ bid \in DOMAIN bookings'
    /\ CASE kind = "Booking Confirmation" ->
               bid \notin DOMAIN bookings /\ bookings'[bid].status = "pending"
         [] kind = "Service Complete" ->
               /\ bid \in DOMAIN bookings
               /\ bookings'[bid] = complete_booking_set(bookings[bid], clock')
         [] OTHER ->
               /\ bid \in DOMAIN bookings
               /\ bookings'[bid] = update_prebooking_status(bookings[bid], "rejected", clock')

\* a step of prebook, complete_booking or reject_booking with this outcome of
\* the rendering and the transport
NotifyingStep(rendered, delivered) ==
    \/ \E req \in NotifyRequests : prebook_notified("u1", req, rendered, delivered)
    \/ complete_booking_update_notified("w1", rendered, delivered)
    \/ reject_booking_update_notified("w1", rendered, delivered)

C24_ManualPaymentKeepsBooking ==
    [][\A bid \in BookingIds \cup {0}, a \in PaymentAmounts, m \in PaymentModes :
          add_manual_payment(bid, a, m)
             => /\ DOMAIN bookings' = DOMAIN bookings
                /\ \A b \in DOMAIN bookings :
                      /\ bookings'[b].status = bookings[b].status
                      /\ bookings'[b].services = bookings[b].services
                      /\ bookings'[b].total_service_amount = bookings[b].total_service_amount
                      /\ bookings'[b].total_amount = bookings[b].total_amount
                /\ IF admin_logged_in /\ bid \in DOMAIN bookings /\ a # 0 /\ m # ""
                   THEN /\ Len(payments') = Len(payments) + 1
                        /\ SubSeq(payments', 1, Len(payments)) = payments
                        /\ payments'[Len(payments')].booking_id = bid
                        /\ payments'[Len(payments')].amount_paid = a
                   ELSE payments' = payments]_vars

\* two payments recorded against a booking whose total is 50: one of 100 and
\* one of -5
C24_Witness ==
    /\ Len(payments) = 2
    /\ payments[1].booking_id = 1 /\ payments[2].booking_id = 1
    /\ payments[1].amount_paid = 100 /\ payments[2].amount_paid = -5
    /\ bookings[1].total_amount = 50
    /\ bookings[1].payment_status = "paid"

\* the star values the specification admits: the integers 1 to 5
StarsOk(text) == text \in {"1", "2", "3", "4", "5"}

\* C25: every stored rating has an integer star value from 1 to 5, and a
\* rate_service_with_images request whose value is not such an integer is
\* refused at once and stores nothing.
C25_StarsBetweenOneAndFive ==
    [][/\ \A i \in 1..Len(ratings') : ratings'[i].rating \in 1..5
       /\ \A form \in StarForms :
             (~StarsOk(form.rating) /\ rate_service_with_images("w1", "u1", form))
                => /\ ~response'.ok
                   /\ pc'["w1"] = "idle"
                   /\ ratings' = ratings]_vars

\* ratings of 1 and of 5 stars are stored, and a request with 6 stars has just
\* been refused
C25_Witness ==
    /\ Len(ratings) = 2
    /\ {ratings[1].rating, ratings[2].rating} = {1, 5}
    /\ response.op = "rate_service_with_images"
    /\ response.msg = "Rating must be between 1 and 5"

\* C26: what an issuance leaves in the session is the hash of the code and the
\* issue time, never the code: no OTPManager challenge, no login challenge and
\* no pre-booking challenge holds one of the codes that are sent out.
C26_OnlyHashStored ==
    /\ \A t \in OtpTypes :
          KOtp(t) \in DOMAIN session => session[KOtp(t)] \in { hash_otp(otp) : otp \in Codes }
    /\ \A c \in Users :
          /\ sessions[c].login_otp \notin Codes
          /\ sessions[c].otp \notin Codes

\* C27: a verify_otp that succeeds leaves no key of the challenge and no
\* attempt counter in the session; a verify_otp with the same code right after
\* it, and any verify_otp while no challenge is stored, answers that no OTP
\* was found and changes nothing.
C27_CodeAcceptedOnce ==
    [][\A otp \in Codes, t \in OtpTypes :
          /\ (verify_otp(otp, t) /\ response'.ok)
                => /\ \A k \in DOMAIN session' : k[1] # t
                   /\ KOtp(t) \in DOMAIN session
                   /\ session[KOtp(t)] = hash_otp(otp)
          /\ ( /\ verify_otp(otp, t)
               /\ response.op = "verify_otp"
               /\ response.ok
               /\ response.args = <<otp, t>> )
                => (~response'.ok /\ response'.msg = "No OTP found")
          /\ (verify_otp(otp, t) /\ KOtp(t) \notin DOMAIN session)
                => ( /\ ~response'.ok
                     /\ response'.msg = "No OTP found"
                     /\ session' = session )]_vars

\* the code of the challenge was accepted some time after it was stored, and
\* the challenge and the counter are gone
C27_Witness ==
    /\ response.op = "verify_otp"
    /\ response.ok
    /\ hash_otp(response.args[1]) = stored[response.args[2]].hash
    /\ \A k \in DOMAIN session : k[1] # response.args[2]
    /\ now > 1

\* C28: in the pre-booking flow a code is accepted once and an expired
\* challenge is cleared: a /verify-otp that follows a /verify-otp of the same
\* browser which succeeded or reported expiry, with no /send-otp in between,
\* does not succeed, and after either answer the session holds no code.
C28_PrebookCodeAcceptedOnce ==
    [][\A c \in Clients :
          /\ ( /\ response.op = "verify_otp_route"
               /\ response.args = <<c>>
               /\ (response.ok \/ response.msg = "Expired OTP")
               /\ \E otp \in Codes : verify_otp_route(c, "a@x.com", otp) )
                => ~response'.ok
          /\ ( /\ response'.op = "verify_otp_route"
               /\ response'.args = <<c>>
               /\ (response'.ok \/ response'.msg = "Expired OTP")
               /\ \E otp \in Codes : verify_otp_route(c, "a@x.com", otp) )
                => sessions'[c].otp = None]_vars

\* C29: a verify_otp with a wrong code, on a challenge stored at most 300
\* seconds ago against which fewer than 3 wrong codes were counted, fails as
\* invalid, raises the attempt counter by exactly 1, reports 3 minus the new
\* counter as the attempts that remain, and leaves every other key of the
\* session, the hash, the issue time and the last-sent time among them, as it
\* was.
C29_WrongCodeCountsOne ==
    [][\A otp \in Codes, t \in OtpTypes :
          ( /\ KOtp(t) \in DOMAIN session
            /\ session[KOtp(t)] # hash_otp(otp)
            /\ now - stored[t].time <= 300 * TicksPerSecond
            /\ Get(session, KAttempts(t), 0) < 3
            /\ verify_otp(otp, t) )
             => ( /\ ~response'.ok
                  /\ response'.msg = "Invalid OTP"
                  /\ KAttempts(t) \in DOMAIN session'
                  /\ session'[KAttempts(t)] = Get(session, KAttempts(t), 0) + 1
                  /\ response'.val = 3 - session'[KAttempts(t)]
                  /\ DOMAIN session' = (DOMAIN session) \cup {KAttempts(t)}
                  /\ \A k \in DOMAIN session : k # KAttempts(t) => session'[k] = session[k]
                  /\ {KOtp(t), KOtpTime(t), KLastSent(t)} \subseteq DOMAIN session' )]_vars

\* the second wrong code against a challenge: one attempt remains
C29_Witness ==
    /\ response.op = "verify_otp"
    /\ response.msg = "Invalid OTP"
    /\ response.val = 1
    /\ Get(session, KAttempts(response.args[2]), 0) = 2
    /\ session[KOtp(response.args[2])] = stored[response.args[2]].hash
    /\ session[KOtpTime(response.args[2])] = stored[response.args[2]].time

\* C30: a store_otp supersedes the challenge of its purpose: it replaces the
\* stored hash by that of the new code, also when another code was stored,
\* restarts the issue time and leaves the attempt counter at 0; verify_otp
\* succeeds only for the code of the latest store_otp and only within 300
\* seconds of that store_otp, so the earlier code is rejected, and it does
\* succeed for the latest code within that time while fewer than 3 wrong codes
\* were counted.
C30_ReissuanceSupersedes ==
    [][\A otp \in Codes, t \in OtpTypes :
          /\ \A e \in Emails, ud \in UserData :
                store_otp(otp, t, e, ud)
                   => /\ session'[KOtp(t)] = hash_otp(otp)
                      /\ \A old \in Codes \ {otp} : session'[KOtp(t)] # hash_otp(old)
                      /\ session'[KOtpTime(t)] = now
                      /\ Get(session', KAttempts(t), 0) = 0
          /\ (verify_otp(otp, t) /\ response'.ok)
                => /\ hash_otp(otp) = stored[t].hash
                   /\ now - stored[t].time <= 300 * TicksPerSecond
          /\ ( /\ KOtp(t) \in DOMAIN session
               /\ hash_otp(otp) = stored[t].hash
               /\ now - stored[t].time <= 300 * TicksPerSecond
               /\ Get(session, KAttempts(t), 0) < 3
               /\ verify_otp(otp, t) )
                => response'.ok]_vars

\* a code stored more than 300 seconds after the clock started was accepted at
\* a time when a challenge stored at the start would have expired
C30_Witness ==
    /\ response.op = "verify_otp"
    /\ response.ok
    /\ hash_otp(response.args[1]) = stored[response.args[2]].hash
    /\ stored[response.args[2]].time > 1
    /\ now - 1 > 300 * TicksPerSecond
    /\ now - stored[response.args[2]].time <= 300 * TicksPerSecond

\* C31: a challenge against which 3 wrong codes were counted stays stored: as
\* long as 300 seconds have not passed since its store_otp, every verify_otp
\* for it answers with the attempt-limit failure and leaves the whole session,
\* the counter, the hash and the issue time among them, as it was, and
\* get_otp_status goes on reporting a stored challenge with 3 attempts used.
C31_LockedChallengeStays ==
    [][\A otp \in Codes, t \in OtpTypes :
          ( /\ KOtp(t) \in DOMAIN session
            /\ Get(session, KAttempts(t), 0) = 3
            /\ now - stored[t].time <= 300 * TicksPerSecond
            /\ verify_otp(otp, t) )
             => ( /\ ~response'.ok
                  /\ response'.msg = "Too many failed attempts"
                  /\ session'[KAttempts(t)] = 3
                  /\ session'[KOtp(t)] = stored[t].hash
                  /\ session'[KOtpTime(t)] = stored[t].time
                  /\ session' = session
                  /\ get_otp_status(session', t).has_otp
                  /\ get_otp_status(session', t).attempts_used = 3
                  /\ ~get_otp_status_times(session', t, now).is_expired )]_vars

\* a minute after its store_otp a locked challenge has refused one more code
\* and is still reported as stored with 3 attempts used
C31_Witness ==
    /\ response.op = "verify_otp"
    /\ response.msg = "Too many failed attempts"
    /\ get_otp_status(session, response.args[2]).has_otp
    /\ get_otp_status(session, response.args[2]).attempts_used = 3
    /\ now - stored[response.args[2]].time >= 60 * TicksPerSecond

\* C32: whatever the sequence of check_rate_limit, can_resend_otp, store_otp,
\* verify_otp, clear_otp and cleanup_expired_otps calls, at no time do more
\* than 5 admitted issuances for one (purpose, identity) lie within the last
\* 60 minutes.
C32_AtMostFiveInAnyWindow ==
    \A e \in Emails, t \in RateTypes : AdmittedInWindow(t, e) <= 5

\* C33: an issuance admitted by can_resend_otp comes at least 60 seconds after
\* the previous admitted issuance for the purpose, whatever verify_otp calls
\* came between the two.
C33_AdmittedIssuancesSixtySecondsApart ==
    [][\A otp \in Codes, t \in OtpTypes, e \in Emails :
          ( /\ issue(otp, t, e)
            /\ response'.op = "store_otp"
            /\ stored[t].time # 0 )
             => now - stored[t].time >= 60 * TicksPerSecond]_vars

\* C34: an amount assignment to a booking whose status is completed, cancelled
\* or rejected, by update_booking_service_amounts or by
\* update_booking_service_amount, leaves the booking's services,
\* total_service_amount and total_amount as they are.
C34_NoAmountsOnTerminalBooking ==
    [][\A bid \in DOMAIN bookings :
          ( /\ bookings[bid].status \in Terminal
            /\ \/ \E sd \in AmountInputs : update_individual_service_amounts(bid, sd)
               \/ \E a \in SingleAmounts : update_service_amount(bid, a) )
             => ( /\ bookings'[bid].services = bookings[bid].services
                  /\ bookings'[bid].total_service_amount = bookings[bid].total_service_amount
                  /\ bookings'[bid].total_amount = bookings[bid].total_amount )]_vars

\* the ordered list of the service names of a services list
ServiceNames(services) == [i \in 1..Len(services) |-> services[i].name]

\* C37: an accepted update_booking_service_amounts leaves the ordered list of
\* the booking's service names as it was before the call.
C37_AmountsKeepServiceNames ==
    [][\A bid \in DOMAIN bookings, sd \in AmountInputs :
          (update_individual_service_amounts(bid, sd) /\ response'.ok)
             => ServiceNames(bookings'[bid].services) = ServiceNames(bookings[bid].services)]_vars

\* C39: the total_amount an accepted update_service_amount reports equals the
\* total_amount its update_booking_service_amount stored on the booking.
C39_ReportedTotalIsStoredTotal ==
    [][\A bid \in DOMAIN bookings, a \in SingleAmounts :
          (update_service_amount(bid, a) /\ response'.ok)
             => response'.val = bookings'[bid].total_amount]_vars

\* C35: whenever a session has a user_id, its user_email is the email of the
\* account with that id, whatever /send-otp, /verify-otp, /prebook and login
\* requests the session has made.
C35_SessionEmailIsAccountEmail ==
    \A c \in Clients :
        sessions[c].user_id # None
           => sessions[c].user_email = UserEmail(sessions[c].user_id)

\* C36: every stored rating refers to a booking that exists and whose status
\* is completed.
C36_RatingsReferToCompletedBookings ==
    \A i \in 1..Len(ratings) :
        /\ ratings[i].booking_id \in DOMAIN bookings
        /\ bookings[ratings[i].booking_id].status = "completed"

\* the ratings whose non-empty service name has the canonical name g
RatingsOfGroup(g) ==
    { i \in 1..Len(ratings) :
         ratings[i].service_name # "" /\ CanonicalName(ratings[i].service_name) = g }

RECURSIVE StarsOfRatings(_)
\* the sum of the stars of a set of ratings
StarsOfRatings(S) ==
    IF S = {} THEN 0
    ELSE LET i == CHOOSE x \in S : TRUE
         IN ratings[i].rating + StarsOfRatings(S \ {i})

\* C38: calculate_average_ratings has one group per canonical service name of
\* the ratings with a non-empty service name, every such rating is counted in
\* the group of its canonical name and in no other, the count of a group is
\* the number of its ratings, and its average is the sum of their stars
\* divided by the count, rounded to one decimal (no further than 0.05 from
\* the quotient).
C38_AveragesPerCanonicalName ==
    response.op = "calculate_average_ratings"
       => LET avg == response.val
          IN /\ DOMAIN avg = { CanonicalName(ratings[i].service_name) :
                                  i \in { j \in 1..Len(ratings) : ratings[j].service_name # "" } }
             /\ \A g \in DOMAIN avg :
                   /\ avg[g].count = Cardinality(RatingsOfGroup(g))
                   /\ avg[g].count > 0
                   /\ LET d == avg[g].average * avg[g].count
                                  - 10 * StarsOfRatings(RatingsOfGroup(g))
                      IN 2 * d <= avg[g].count /\ - 2 * d <= avg[g].count
             /\ \A i \in 1..Len(ratings) :
                   ratings[i].service_name # ""
                      => Cardinality({ g \in DOMAIN avg : i \in RatingsOfGroup(g) }) = 1

\* the averages were computed over four ratings of one service, spelled in
\* two letter cases, whose quotient 17 / 4 = 4.25 lies between two tenths
C38_Witness ==
    /\ response.op = "calculate_average_ratings"
    /\ Len(ratings) = 4
    /\ DOMAIN response.val = {"Waxing"}
    /\ response.val["Waxing"] = [average |-> 42, count |-> 4]
    /\ \E i, j \in 1..4 : ratings[i].service_name = "waxing" /\ ratings[j].service_name = "Waxing"

====
